---- MODULE Spec2Model ----
(***************************************************************************)
(* State-machine model of the ninja-debugger engine (ndb3.py): the debug   *)
(* Session (Ndb3), its per-thread controllers (Ndb3Thread), the trace      *)
(* callbacks run by the debuggee threads and the commands applied by the   *)
(* RPC thread.                                                             *)
(*                                                                         *)
(* Python 2 runtime facts the model relies on:                             *)
(*  - sys.settrace is per thread; the global trace function receives only  *)
(*    'call' events and its return value becomes the new frame's f_trace;  *)
(*    'line', 'return' and 'exception' events go to frame.f_trace.         *)
(*  - a local trace function returning None does not clear f_trace.        *)
(*  - an exception escaping a trace function switches tracing off for the  *)
(*    thread and propagates into the debuggee.                             *)
(*  - a WeakValueDictionary entry disappears when the last strong          *)
(*    reference to its value goes away (frames hold the controller through *)
(*    f_trace; a controller <-> frame cycle is only reclaimed by the cyclic*)
(*    collector, at an unspecified later time).                            *)
(***************************************************************************)
EXTENDS Integers, Sequences, FiniteSets, TLC

\* ------------------------------------------------------------------ bounds
MaxFrames == 3      \* frames a debuggee thread creates (boot frame included)
MaxLine == 2        \* line numbers of a code object: 1..MaxLine
MaxCalls == 3       \* requests the RPC server handles
\* the same two for a program that starts a second thread
MaxFramesMT == 2
MaxCallsMT == 2
\* and for a client that uses the whole RPC interface
MaxFramesRpc == 2
MaxCallsRpc == 3
\* The largest argument of DebuggerMaster.connect().
MaxAttemps == 2
\* The containers of a value graph given to the serializer, and its depth.
MaxObjs == 3
MaxDepth == 2
\* The set_breakpoint() calls made on a registry used on its own.
MaxSets == 3
MaxFramesReuse == 4
MaxCallsReuse == 3
MaxStops == 3
MaxCmds == 3

\* --------------------------------------------------------------- constants
MainTid == 1
Tids == {1, 2}

STATE_INITIALIZED == "STATE_INITIALIZED"
STATE_RUNNING == "STATE_RUNNING"
STATE_PAUSED == "STATE_PAUSED"
STATE_TERMINATED == "STATE_TERMINATED"

CMD_RUN == "Run"
CMD_STEP_OVER == "Over"
CMD_STEP_INTO == "Into"
CMD_STEP_OUT == "Out"
CMD_NONE == "None"

MSG_THREAD_STARTED == "ThreadStarted"
MSG_THREAD_SUSPENDED == "ThreadSuspended"
MSG_THREAD_ENDED == "ThreadEnded"

\* The ignore list as Python builds it: the missing comma after
\* 'serialize.py' concatenates the last two literals.
_IGNORE_FILES == {"threading.py", "process.py", "ndb3.py", "serialize.pyweakref.py"}

\* ------------------------------------------------------------------- paths
\* A path is a sequence of components; an absolute path starts with "/".
Cwd == <<"/", "w">>
ScriptRel == <<"script.py">>
ScriptDot == <<".", "script.py">>
ScriptAbs == <<"/", "w", "script.py">>
LibFile == <<"/", "lib", "threading.py">>
ExecFile == <<"/", "ndb", "process.py">>

\* co_filename of the frames the debuggee creates
CallFiles == {ScriptRel, LibFile}
\* spellings a client passes to set_breakpoint
BreakFiles == {ScriptRel, ScriptDot, ScriptAbs}
Lines == 1..MaxLine

RECURSIVE normpath(_)
normpath(p) ==
    IF p = <<>> THEN <<>>
    ELSE IF Head(p) = "." THEN normpath(Tail(p))
    ELSE <<Head(p)>> \o normpath(Tail(p))

abspath(p) ==
    IF p # <<>> /\ Head(p) = "/" THEN normpath(p) ELSE normpath(Cwd \o p)

basename(p) == IF p = <<>> THEN "" ELSE p[Len(p)]

\* ------------------------------------------------------------------- state
VARIABLES
    sstate,       \* Ndb3._state
    threads,      \* keys of Ndb3._threads (the weak map)
    ctl,          \* the Ndb3Thread object registered (or last registered) per id
    messages,     \* Ndb3._messages
    breakpoints,  \* Ndb3._breakpoints: absolute path -> list of lines
    stack,        \* per debuggee thread: its frames, outermost first
    pc,           \* per debuggee thread: where it is
    sub,          \* per debuggee thread: statement of Ndb3Thread.stop() it is at
    ev,           \* per debuggee thread: the trace event being handled
    sfr,          \* per debuggee thread: s_frame of trace_dispatch
    nid,          \* per debuggee thread: frames created so far
    traceOn,      \* per debuggee thread: sys.settrace is set
    hook,         \* threading.settrace is set
    runpc,        \* where Ndb3.run() is
    rpc,          \* the RPC thread: Ndb3.stop() in progress
    calls,        \* requests the RPC server still takes
    maxf,         \* frames each thread of the debugged script creates
    obs,          \* per controller: the last command and what followed it
    reply,        \* the answer to the last request the RPC server completed
    quit,         \* RPCDebuggerAdapter._quit
    got,          \* every event get_messages() has returned, in order
    master,       \* legacy DebuggerMaster: its slave proxy and the class lock
    client,       \* per thread of the IDE calling the master: where it is
    net,          \* whether the slave's socket accepts connections
    ser,          \* GenericSerializer: the value given, the depth, the result
    bplog,        \* every set_breakpoint() call made so far, in order
    srv,          \* RPCDebuggerAdapter.run(): whether it is still in its loop
    slave,        \* legacy DebuggerSlave: the debuggee thread and its queues
    stopped       \* whether Ndb3.stop() has returned, and the threads whose
                  \* callback in progress began after that

vars == <<sstate, threads, ctl, messages, breakpoints, stack, pc, sub, ev, sfr,
          nid, traceOn, hook, runpc, rpc, calls, maxf, obs, reply, quit, got,
          master, client, net, ser, bplog, srv, slave, stopped>>

\* The state of the legacy master and slave, of the serializer, of the
\* registry log and of the adapter's serving loop: the steps of the ndb3
\* engine never touch it.
legacy == <<master, client, net, ser, bplog, srv, slave>>

\* What most steps of the engine leave alone.
aux == <<legacy, stopped>>

\* A reference to a frame: its identity, and whether its f_trace is the
\* controller's bound method (it then keeps the controller alive).
None == [id |-> 0, tr |-> FALSE]
RefOf(fr) == [id |-> fr.id, tr |-> fr.traced]

NoCtl == [origin |-> None, current |-> None, stop |-> None, cmd |-> CMD_NONE,
          state |-> STATE_TERMINATED, dbg |-> FALSE]

NoObs == [cmd |-> "none", paused |-> FALSE, f |-> 0, forg |-> 0, pev |-> "none",
          n |-> 0, first |-> "none", g |-> 0, hit |-> "no", stepped |-> FALSE]

\* What the client receives for a request: the marshalled return value of the
\* export_ method, or a fault naming the exception that escaped it.
\* tid is the thread id the request named (0: it names none).
NoReply == [method |-> "none", tid |-> 0, fault |-> "none", val |-> <<>>]
Result(method, val) == [method |-> method, tid |-> 0, fault |-> "none", val |-> val]
Fault(method, exc) == [method |-> method, tid |-> 0, fault |-> exc, val |-> <<>>]
For(t, r) == [r EXCEPT !.tid = t]

\* The RPC thread between requests.
RpcIdle == [op |-> "idle", todo |-> {}, cur |-> 0, k |-> 0, res |-> <<>>, snap |-> <<>>]

Top(t) == stack[t][Len(stack[t])]
\* frame.f_back of the innermost frame
Back(t) == IF Len(stack[t]) > 1 THEN RefOf(stack[t][Len(stack[t]) - 1]) ELSE None
BackFrame(t) == stack[t][Len(stack[t]) - 1]

HasTraced(st) == \E i \in 1..Len(st) : st[i].traced

\* The IDE's threads that call the one DebuggerMaster.
Clients == {1, 2}

\* DebuggerMaster.__init__ (self.slave = None) and the class attribute
\* lock = threading.Lock(): 0 is the free lock, otherwise its holder.
DebuggerMaster_init == [slave |-> "None", lock |-> 0]

\* A thread of the IDE that is not inside any operation of the master.
\*   op       the operation it called last
\*   attemps  connect's local counter, n its argument, pings the pings sent
\*   how      the way the call made under the lock ended
\*   sit      "never": the slave proxy was missing; "lost": the socket failed
\*   out      what the operation returned, or the exception it raised
ClientIdle == [pc |-> "idle", op |-> "none", attemps |-> 0, n |-> 0, pings |-> 0,
               how |-> "none", sit |-> "ok", out |-> "none"]

\* No value was handed to the serializer yet.
NoSer == [heap |-> <<>>, depth |-> 0, done |-> FALSE, res |-> <<>>]

\* RPCDebuggerAdapter after start(): run() is in its loop, inside
\* handle_request(); `seen` is 0 until _quit is written, and then tells
\* which request was the last one begun before that write.
RPCDebuggerAdapter_init == [loop |-> "handle", seen |-> 0]

\* DebuggerSlave.__init__, ndb.py lines 263-273, and the debuggee thread
\* started by start_session: no current frame, empty queues, running.
\* Each queued command carries the number of stops made when it was sent.
DebuggerSlave_init ==
    [pc |-> "running", current_frame |-> FALSE, quit |-> FALSE,
     events |-> <<>>, commands |-> <<>>, stops |-> 0, sent |-> 0]

AuxInit ==
    /\ master = DebuggerMaster_init
    /\ client = [c \in Clients |-> ClientIdle]
    /\ net = "down"
    /\ ser = NoSer
    /\ bplog = <<>>
    /\ srv = RPCDebuggerAdapter_init
    /\ slave = DebuggerSlave_init

\* No stop() has returned.
NotStopped == [ret |-> FALSE, late |-> {}]

\* A trace callback of thread t begins.
Begun(t) ==
    [stopped EXCEPT !.late = IF stopped.ret THEN @ \cup {t} ELSE @ \ {t}]

Ndb3_init ==
    /\ sstate = STATE_PAUSED
    /\ threads = {}
    /\ ctl = [t \in Tids |-> NoCtl]
    /\ messages = <<>>
    /\ breakpoints = <<>>
    /\ stack = [t \in Tids |-> <<>>]
    /\ pc = [t \in Tids |-> "unborn"]
    /\ sub = [t \in Tids |-> 0]
    /\ ev = [t \in Tids |-> "none"]
    /\ sfr = [t \in Tids |-> None]
    /\ nid = [t \in Tids |-> 0]
    /\ traceOn = [t \in Tids |-> FALSE]
    /\ hook = FALSE
    /\ runpc = "wait_start"
    /\ rpc = RpcIdle
    /\ calls = MaxCalls
    /\ maxf = MaxFrames
    /\ reply = NoReply
    /\ quit = FALSE
    /\ got = <<>>
    /\ stopped = NotStopped
    /\ obs = [t \in Tids |-> NoObs]

Init ==
    /\ Ndb3_init
    /\ AuxInit

\* ---------------------------------------------------------------- messages
make_thread_started(tid) ==
    [type |-> MSG_THREAD_STARTED, id |-> tid, file |-> <<>>, line |-> 0]

make_thread_suspended(tid, frame) ==
    [type |-> MSG_THREAD_SUSPENDED, id |-> tid, file |-> frame.file,
     line |-> frame.line]

make_thread_ended(tid) ==
    [type |-> MSG_THREAD_ENDED, id |-> tid, file |-> <<>>, line |-> 0]

\* A queue that hands out the newest message first.
put_message_front(q, msg) == <<msg>> \o q

put_message(q, msg) ==
    Append(q, msg)

\* ------------------------------------------------------ breakpoint registry
InList(x, l) == \E i \in 1..Len(l) : l[i] = x

\* set_breakpoint() without the test of line 403.
set_breakpoint_again(bps, filename, line) ==
    LET fullpath == abspath(filename)
        lines == IF fullpath \in DOMAIN bps THEN bps[fullpath] ELSE <<>>
    IN  [p \in (DOMAIN bps) \cup {fullpath} |->
            IF p = fullpath THEN Append(lines, line) ELSE bps[p]]
set_breakpoint(bps, filename, line) ==
    LET fullpath == abspath(filename)
        lines == IF fullpath \in DOMAIN bps THEN bps[fullpath] ELSE <<>>
        added == IF InList(line, lines) THEN lines ELSE Append(lines, line)
    IN  [p \in (DOMAIN bps) \cup {fullpath} |->
            IF p = fullpath THEN added ELSE bps[p]]

\* is_breakpoint() looking the file name up as it was given.
is_breakpoint_as_given(bps, filename, line) ==
    IF filename \in DOMAIN bps THEN InList(line, bps[filename]) ELSE FALSE
is_breakpoint(bps, filename, line) ==
    LET fullpath == abspath(filename)
    IN  IF fullpath \in DOMAIN bps THEN InList(line, bps[fullpath]) ELSE FALSE

\* ------------------------------------------------- Ndb3Thread, pure parts
Ndb3Thread_init(frame) ==
    [origin |-> RefOf(frame), current |-> RefOf(frame), stop |-> None,
     cmd |-> CMD_RUN, state |-> STATE_RUNNING, dbg |-> TRUE]

\* Variants of _stop_frame with one of its rules changed.
\* STEP_INTO does not stop on line events.
_stop_frame_into_as_run(c, frame, back, event, bps) ==
    IF event = "return" /\ c.cmd = CMD_STEP_INTO
    THEN [s |-> back, c |-> [c EXCEPT !.current = back], raised |-> FALSE]
    ELSE IF event = "return" /\ c.cmd \in {CMD_STEP_OVER, CMD_STEP_OUT}
            /\ frame.id = c.stop.id
    THEN [s |-> back, c |-> [c EXCEPT !.current = back], raised |-> FALSE]
    ELSE IF event = "line" /\ c.cmd = CMD_STEP_OVER /\ frame.id = c.stop.id
    THEN [s |-> RefOf(frame), c |-> c, raised |-> FALSE]
    ELSE IF ~c.dbg
    THEN [s |-> None, c |-> c, raised |-> TRUE]
    ELSE IF is_breakpoint(bps, frame.file, frame.line)
    THEN [s |-> RefOf(frame), c |-> c, raised |-> FALSE]
    ELSE [s |-> None, c |-> c, raised |-> FALSE]

\* STEP_OVER stops on the line events of every frame.
_stop_frame_over_any_frame(c, frame, back, event, bps) ==
    IF event = "return" /\ c.cmd = CMD_STEP_INTO
    THEN [s |-> back, c |-> [c EXCEPT !.current = back], raised |-> FALSE]
    ELSE IF event = "return" /\ c.cmd \in {CMD_STEP_OVER, CMD_STEP_OUT}
            /\ frame.id = c.stop.id
    THEN [s |-> back, c |-> [c EXCEPT !.current = back], raised |-> FALSE]
    ELSE IF event = "line" /\ c.cmd = CMD_STEP_INTO
    THEN [s |-> RefOf(frame), c |-> c, raised |-> FALSE]
    ELSE IF event = "line" /\ c.cmd = CMD_STEP_OVER
    THEN [s |-> RefOf(frame), c |-> c, raised |-> FALSE]
    ELSE IF ~c.dbg
    THEN [s |-> None, c |-> c, raised |-> TRUE]
    ELSE IF is_breakpoint(bps, frame.file, frame.line)
    THEN [s |-> RefOf(frame), c |-> c, raised |-> FALSE]
    ELSE [s |-> None, c |-> c, raised |-> FALSE]

\* STEP_OUT stops on the line events of the stop frame, as STEP_OVER does.
_stop_frame_out_on_line(c, frame, back, event, bps) ==
    IF event = "return" /\ c.cmd = CMD_STEP_INTO
    THEN [s |-> back, c |-> [c EXCEPT !.current = back], raised |-> FALSE]
    ELSE IF event = "return" /\ c.cmd \in {CMD_STEP_OVER, CMD_STEP_OUT}
            /\ frame.id = c.stop.id
    THEN [s |-> back, c |-> [c EXCEPT !.current = back], raised |-> FALSE]
    ELSE IF event = "line" /\ c.cmd = CMD_STEP_INTO
    THEN [s |-> RefOf(frame), c |-> c, raised |-> FALSE]
    ELSE IF event = "line" /\ c.cmd \in {CMD_STEP_OVER, CMD_STEP_OUT}
            /\ frame.id = c.stop.id
    THEN [s |-> RefOf(frame), c |-> c, raised |-> FALSE]
    ELSE IF ~c.dbg
    THEN [s |-> None, c |-> c, raised |-> TRUE]
    ELSE IF is_breakpoint(bps, frame.file, frame.line)
    THEN [s |-> RefOf(frame), c |-> c, raised |-> FALSE]
    ELSE [s |-> None, c |-> c, raised |-> FALSE]

\* Breakpoints are looked up in RUN mode only.
_stop_frame_step_first(c, frame, back, event, bps) ==
    IF event = "return" /\ c.cmd = CMD_STEP_INTO
    THEN [s |-> back, c |-> [c EXCEPT !.current = back], raised |-> FALSE]
    ELSE IF event = "return" /\ c.cmd \in {CMD_STEP_OVER, CMD_STEP_OUT}
            /\ frame.id = c.stop.id
    THEN [s |-> back, c |-> [c EXCEPT !.current = back], raised |-> FALSE]
    ELSE IF event = "line" /\ c.cmd = CMD_STEP_INTO
    THEN [s |-> RefOf(frame), c |-> c, raised |-> FALSE]
    ELSE IF event = "line" /\ c.cmd = CMD_STEP_OVER /\ frame.id = c.stop.id
    THEN [s |-> RefOf(frame), c |-> c, raised |-> FALSE]
    ELSE IF ~c.dbg
    THEN [s |-> None, c |-> c, raised |-> TRUE]
    ELSE IF c.cmd = CMD_RUN /\ is_breakpoint(bps, frame.file, frame.line)
    THEN [s |-> RefOf(frame), c |-> c, raised |-> FALSE]
    ELSE [s |-> None, c |-> c, raised |-> FALSE]

\* _stop_frame(frame, event): the stop frame s (None when there is no stop),
\* the controller with _f_current updated, and whether the breakpoint lookup
\* raised because self._debugger is None.
_stop_frame(c, frame, back, event, bps) ==
    IF event = "return" /\ c.cmd = CMD_STEP_INTO
    THEN [s |-> back, c |-> [c EXCEPT !.current = back], raised |-> FALSE]
    ELSE IF event = "return" /\ c.cmd \in {CMD_STEP_OVER, CMD_STEP_OUT}
            /\ frame.id = c.stop.id
    THEN [s |-> back, c |-> [c EXCEPT !.current = back], raised |-> FALSE]
    ELSE IF event = "line" /\ c.cmd = CMD_STEP_INTO
    THEN [s |-> RefOf(frame), c |-> c, raised |-> FALSE]
    ELSE IF event = "line" /\ c.cmd = CMD_STEP_OVER /\ frame.id = c.stop.id
    THEN [s |-> RefOf(frame), c |-> c, raised |-> FALSE]
    ELSE IF ~c.dbg
    THEN [s |-> None, c |-> c, raised |-> TRUE]
    ELSE IF is_breakpoint(bps, frame.file, frame.line)
    THEN [s |-> RefOf(frame), c |-> c, raised |-> FALSE]
    ELSE [s |-> None, c |-> c, raised |-> FALSE]

\* The assignments of Ndb3Thread.stop() after its put_message, one per step.
StopSteps == <<"put", "origin", "current", "stop", "cmd", "state", "dbg">>

stop_assign(c, k) ==
    CASE StopSteps[k] = "origin" -> [c EXCEPT !.origin = None]
      [] StopSteps[k] = "current" -> [c EXCEPT !.current = None]
      [] StopSteps[k] = "stop" -> [c EXCEPT !.stop = None]
      [] StopSteps[k] = "cmd" -> [c EXCEPT !.cmd = CMD_NONE]
      [] StopSteps[k] = "state" -> [c EXCEPT !.state = STATE_TERMINATED]
      [] StopSteps[k] = "dbg" -> [c EXCEPT !.dbg = FALSE]
      [] OTHER -> c

resume(c) ==
    [c EXCEPT !.stop = None, !.cmd = CMD_RUN, !.state = STATE_RUNNING]

step_over(c) ==
    [c EXCEPT !.stop = c.current, !.cmd = CMD_STEP_OVER, !.state = STATE_RUNNING]

step_into(c) ==
    [c EXCEPT !.stop = None, !.cmd = CMD_STEP_INTO, !.state = STATE_RUNNING]

\* step_out() that forgets the frame to leave.
step_out_no_frame(c) ==
    [c EXCEPT !.stop = None, !.cmd = CMD_STEP_OUT, !.state = STATE_RUNNING]

step_out(c) ==
    [c EXCEPT !.stop = c.current, !.cmd = CMD_STEP_OUT, !.state = STATE_RUNNING]

\* ------------------------------------------------------------ the weak map
\* The controller belongs to a reference cycle when it refers to a frame
\* whose f_trace is its own bound method.
Cyclic(c) == c.origin.tr \/ c.current.tr \/ c.stop.tr

RpcHolds(t) == rpc.op = "stop" /\ rpc.cur = t

\* The keys of the map once the controller of t has lost its last strong
\* reference: no live frame traces into it, the RPC thread does not hold it,
\* and it is in no cycle.
Reap(thr, t, c, st, held) ==
    IF t \in thr /\ ~HasTraced(st) /\ ~held /\ ~Cyclic(c) THEN thr \ {t} ELSE thr

\* -------------------------------------------------------------- observation
\* What is recorded when a command is applied to the controller of t.
Paused(t) == ctl[t].state = STATE_PAUSED /\ pc[t] \in {"td_put", "td_wait"}

ObsCmd(t, name) ==
    [cmd |-> name, paused |-> Paused(t),
     f |-> IF Paused(t) THEN sfr[t].id ELSE 0,
     forg |-> ctl[t].origin.id,
     pev |-> IF Paused(t) THEN ev[t] ELSE "none",
     n |-> 0, first |-> "none", g |-> 0,
     hit |-> IF name = "stop" THEN "no" ELSE obs[t].hit,
     stepped |-> obs[t].stepped
                 \/ name \in {CMD_STEP_OVER, CMD_STEP_INTO, CMD_STEP_OUT}]

\* What is recorded when the thread of t goes on with the program: the first
\* thing it does after the command, and the events delivered to the controller.
ObsAct(o, kind, callee, delivered) ==
    [o EXCEPT !.first = IF o.first = "none" THEN kind ELSE o.first,
              !.g = IF o.first = "none" THEN callee ELSE o.g,
              !.n = IF delivered /\ o.n < 2 THEN o.n + 1 ELSE o.n]

\* What is recorded when an event of `frame` at `line` is delivered to the
\* controller of t: whether the position is a breakpoint while the controller
\* is live (not terminated, not being stopped), and whether the event is the
\* return of the controller's origin frame.
ObsHit(t, frame, line, event) ==
    IF /\ ctl[t].dbg
       /\ ctl[t].state # STATE_TERMINATED
       /\ ~RpcHolds(t)
       /\ is_breakpoint(breakpoints, frame.file, line)
    THEN IF event = "return" /\ frame.id = ctl[t].origin.id THEN "origin" ELSE "bp"
    ELSE "no"

\* ------------------------------------------------- the debuggee's execution
NewFrame(t, file, traced) ==
    [id |-> nid[t] + 1, file |-> file, line |-> 0, traced |-> traced, hits |-> 0]

\* Ndb3.run(), line 325: the wait for STATE_RUNNING is over.
Run_wait_start ==
    /\ runpc = "wait_start"
    /\ sstate = STATE_RUNNING
    /\ runpc' = "settrace"
    /\ UNCHANGED <<sstate, threads, ctl, messages, breakpoints, stack, pc, sub,
                   ev, sfr, nid, traceOn, hook, rpc, obs, calls, maxf, reply, quit, got, aux>>

\* Ndb3.run(), lines 328-331: install the hook and enter CodeExecutor.run(),
\* whose frame (process.py) is the outermost frame of the main thread.
Run_settrace ==
    /\ runpc = "settrace"
    /\ runpc' = "exec"
    /\ hook' = TRUE
    /\ traceOn' = [traceOn EXCEPT ![MainTid] = TRUE]
    /\ stack' = [stack EXCEPT ![MainTid] = <<NewFrame(MainTid, ExecFile, FALSE)>>]
    /\ nid' = [nid EXCEPT ![MainTid] = @ + 1]
    /\ pc' = [pc EXCEPT ![MainTid] = "code"]
    /\ UNCHANGED <<sstate, threads, ctl, messages, breakpoints, sub, ev, sfr,
                   rpc, obs, calls, maxf, reply, quit, got, aux>>

\* Ndb3.run(), lines 333-334, after the script returned.
Run_unset ==
    /\ runpc = "unset"
    /\ runpc' = "wait_threads"
    /\ hook' = FALSE
    /\ traceOn' = [traceOn EXCEPT ![MainTid] = FALSE]
    /\ UNCHANGED <<sstate, threads, ctl, messages, breakpoints, stack, pc, sub,
                   ev, sfr, nid, rpc, obs, calls, maxf, reply, quit, got, aux>>

\* Ndb3.run(), line 336: the wait for an empty thread map is over.
Run_wait_threads ==
    /\ runpc = "wait_threads"
    /\ Cardinality(threads) = 0
    /\ runpc' = "finally"
    /\ UNCHANGED <<sstate, threads, ctl, messages, breakpoints, stack, pc, sub,
                   ev, sfr, nid, traceOn, hook, rpc, obs, calls, maxf, reply, quit, got, aux>>

\* Ndb3.run(), lines 338-341.
Run_finally ==
    /\ runpc = "finally"
    /\ runpc' = "done"
    /\ hook' = FALSE
    /\ traceOn' = [traceOn EXCEPT ![MainTid] = FALSE]
    /\ sstate' = STATE_TERMINATED
    /\ UNCHANGED <<threads, ctl, messages, breakpoints, stack, pc, sub, ev, sfr,
                   nid, rpc, obs, calls, maxf, reply, quit, got, aux>>

\* A running debuggee thread starts another thread (threading.Thread.start):
\* the new thread installs the hook of threading.settrace, if any, and enters
\* Thread.run (threading.py), its outermost frame.
ThreadStart(t) ==
    /\ t # MainTid
    /\ pc[t] = "unborn"
    /\ \E s \in Tids : pc[s] = "code"
    /\ stack' = [stack EXCEPT ![t] = <<NewFrame(t, LibFile, FALSE)>>]
    /\ nid' = [nid EXCEPT ![t] = @ + 1]
    /\ pc' = [pc EXCEPT ![t] = "code"]
    /\ traceOn' = [traceOn EXCEPT ![t] = hook]
    /\ UNCHANGED <<sstate, threads, ctl, messages, breakpoints, sub, ev, sfr,
                   hook, runpc, rpc, obs, calls, maxf, reply, quit, got, aux>>

\* Ndb3.trace_dispatch(frame, 'call', arg) of thread t for a new frame of
\* `file`: whether the frame gets the controller's dispatch as f_trace.
Traced(t, file) ==
    /\ traceOn[t]
    /\ sstate # STATE_TERMINATED
    /\ basename(file) \notin _IGNORE_FILES

\* The debuggee calls a function: the frame is pushed and the global trace
\* function (Ndb3.trace_dispatch) sees the 'call' event.
DoCall(t, file) ==
    /\ pc[t] = "code"
    /\ nid[t] < maxf
    /\ Len(stack[t]) = 1 => Top(t).line = 0
    \* a call is made by a line of the caller, after that line's event
    /\ Top(t).traced => Top(t).line >= 1
    /\ LET traced == Traced(t, file)
           frame == NewFrame(t, file, traced)
           caller == IF Len(stack[t]) = 1 THEN [Top(t) EXCEPT !.line = 1] ELSE Top(t)
       IN  /\ stack' = [stack EXCEPT ![t] =
                          Append(SubSeq(@, 1, Len(@) - 1) \o <<caller>>, frame)]
           /\ nid' = [nid EXCEPT ![t] = @ + 1]
           /\ IF traced /\ t \notin threads
              THEN /\ ctl' = [ctl EXCEPT ![t] = Ndb3Thread_init(frame)]
                   /\ messages' = put_message(messages, make_thread_started(t))
                   /\ threads' = threads \cup {t}
                   /\ obs' = [obs EXCEPT ![t] = NoObs]
              ELSE /\ obs' = [obs EXCEPT ![t] =
                                ObsAct(@, "call", IF traced THEN frame.id ELSE 0, FALSE)]
                   /\ UNCHANGED <<ctl, messages, threads>>
    /\ UNCHANGED <<sstate, breakpoints, pc, sub, ev, sfr, traceOn, hook, runpc, rpc,
                   calls, maxf, reply, quit, got, aux>>

\* The debuggee reaches a new line of a traced frame: 'line' event.
DoLine(t) ==
    /\ pc[t] = "code"
    /\ Len(stack[t]) > 1
    /\ Top(t).traced /\ traceOn[t]
    /\ \E l \in Lines :
         /\ l > Top(t).line
         /\ stack' = [stack EXCEPT ![t][Len(stack[t])] =
                        [@ EXCEPT !.line = l, !.hits = 0]]
         /\ obs' = [obs EXCEPT ![t] =
                      [ObsAct(@, "line", 0, TRUE) EXCEPT
                          !.hit = ObsHit(t, Top(t), l, "line")]]
    /\ ev' = [ev EXCEPT ![t] = "line"]
    /\ pc' = [pc EXCEPT ![t] = "td_origin"]
    /\ stopped' = Begun(t)
    /\ UNCHANGED <<sstate, threads, ctl, messages, breakpoints, sub, sfr, nid,
                   traceOn, hook, runpc, rpc, calls, maxf, reply, quit, got,
                   legacy>>

\* The stack of t without its innermost frame; the outermost frame returns
\* with its only callee, and the thread is over.
Popped(t) ==
    LET rest == SubSeq(stack[t], 1, Len(stack[t]) - 1)
    IN  IF Len(rest) = 1 THEN <<>> ELSE rest

\* The innermost frame is gone: the thread goes on in its caller or ends.
Pop(t) ==
    /\ stack' = [stack EXCEPT ![t] = Popped(t)]
    /\ pc' = [pc EXCEPT ![t] = IF Popped(t) = <<>> THEN "dead" ELSE "code"]
    /\ threads' = Reap(threads, t, ctl[t], Popped(t), RpcHolds(t))
    /\ runpc' = IF t = MainTid /\ Popped(t) = <<>> THEN "unset" ELSE runpc

\* The debuggee returns from a traced frame: 'return' event.
DoReturn(t) ==
    /\ pc[t] = "code"
    /\ Len(stack[t]) > 1
    /\ Top(t).traced /\ traceOn[t]
    /\ Top(t).line >= 1
    /\ ev' = [ev EXCEPT ![t] = "return"]
    /\ pc' = [pc EXCEPT ![t] = "td_origin"]
    /\ obs' = [obs EXCEPT ![t] =
                 [ObsAct(@, "return", 0, TRUE) EXCEPT
                     !.hit = ObsHit(t, Top(t), Top(t).line, "return")]]
    /\ stopped' = Begun(t)
    /\ UNCHANGED <<sstate, threads, ctl, messages, breakpoints, stack, sub, sfr,
                   nid, traceOn, hook, runpc, rpc, calls, maxf, reply, quit, got,
                   legacy>>

\* The debuggee returns from a frame nothing traces: no event.
DoReturnUntraced(t) ==
    /\ pc[t] = "code"
    /\ Len(stack[t]) > 1
    /\ ~(Top(t).traced /\ traceOn[t])
    /\ Pop(t)
    /\ obs' = [obs EXCEPT ![t] = ObsAct(@, "return", 0, FALSE)]
    /\ UNCHANGED <<sstate, ctl, messages, breakpoints, sub, ev, sfr, nid,
                   traceOn, hook, rpc, calls, maxf, reply, quit, got, aux>>

\* ------------------------------------- Ndb3Thread.trace_dispatch, by statement
\* An exception leaves the trace function: the interpreter clears the event
\* frame's f_trace, switches tracing off for the thread and raises the error
\* in the debuggee, which unwinds (in the main thread up to the finally
\* clause of Ndb3.run()).
Raise(t) ==
    LET c == ctl[t]
        unhooked(r) == IF r.id = Top(t).id THEN None ELSE r
        seen == [c EXCEPT !.origin = unhooked(c.origin),
                          !.current = unhooked(c.current),
                          !.stop = unhooked(c.stop)]
    IN  /\ traceOn' = [traceOn EXCEPT ![t] = FALSE]
        /\ stack' = [stack EXCEPT ![t] = <<>>]
        /\ pc' = [pc EXCEPT ![t] = "dead"]
        /\ sub' = [sub EXCEPT ![t] = 0]
        /\ threads' = Reap(threads, t, seen, <<>>, RpcHolds(t))
        /\ runpc' = IF t = MainTid THEN "finally" ELSE runpc

\* line 118: if event == 'return' and frame is self._f_origin: self.stop()
Td_origin(t) ==
    /\ pc[t] = "td_origin"
    /\ IF ev[t] = "return" /\ Top(t).id = ctl[t].origin.id
       THEN /\ pc' = [pc EXCEPT ![t] = "stop"]
            /\ sub' = [sub EXCEPT ![t] = 1]
       ELSE /\ pc' = [pc EXCEPT ![t] = "td_term"]
            /\ UNCHANGED sub
    /\ UNCHANGED <<sstate, threads, ctl, messages, breakpoints, stack, ev, sfr,
                   nid, traceOn, hook, runpc, rpc, obs, calls, maxf, reply, quit, got, aux>>

\* Ndb3Thread.stop() called by the debuggee thread itself, lines 189-190:
\* self._debugger.put_message(msg)
Td_stop_put(t) ==
    /\ pc[t] = "stop" /\ sub[t] = 1
    /\ IF ctl[t].dbg
       THEN /\ messages' = put_message(messages, make_thread_ended(t))
            /\ sub' = [sub EXCEPT ![t] = 2]
            /\ UNCHANGED <<threads, stack, pc, traceOn, runpc>>
       ELSE /\ Raise(t)
            /\ UNCHANGED messages
    /\ UNCHANGED <<sstate, ctl, breakpoints, ev, sfr, nid, hook, rpc, obs, calls, maxf, reply, quit, got, aux>>

\* Ndb3Thread.stop() called by the debuggee thread itself, lines 192-197.
Td_stop_assign(t) ==
    /\ pc[t] = "stop" /\ sub[t] \in 2..Len(StopSteps)
    /\ ctl' = [ctl EXCEPT ![t] = stop_assign(@, sub[t])]
    /\ IF sub[t] = Len(StopSteps)
       THEN /\ pc' = [pc EXCEPT ![t] = "td_term"]
            /\ sub' = [sub EXCEPT ![t] = 0]
       ELSE /\ sub' = [sub EXCEPT ![t] = @ + 1]
            /\ UNCHANGED pc
    /\ UNCHANGED <<sstate, threads, messages, breakpoints, stack, ev, sfr, nid,
                   traceOn, hook, runpc, rpc, obs, calls, maxf, reply, quit, got, aux>>

\* line 121: if self._state == STATE_TERMINATED: return None
Td_term(t) ==
    /\ pc[t] = "td_term"
    /\ pc' = [pc EXCEPT ![t] =
                IF ctl[t].state = STATE_TERMINATED THEN "td_ret" ELSE "td_cur"]
    /\ UNCHANGED <<sstate, threads, ctl, messages, breakpoints, stack, sub, ev,
                   sfr, nid, traceOn, hook, runpc, rpc, obs, calls, maxf, reply, quit, got, aux>>

\* line 125: self._f_current = frame
Td_cur(t) ==
    /\ pc[t] = "td_cur"
    /\ ctl' = [ctl EXCEPT ![t].current = RefOf(Top(t))]
    /\ pc' = [pc EXCEPT ![t] = "td_sf"]
    /\ UNCHANGED <<sstate, threads, messages, breakpoints, stack, sub, ev, sfr,
                   nid, traceOn, hook, runpc, rpc, obs, calls, maxf, reply, quit, got, aux>>

\* lines 129-130: s_frame = self._stop_frame(frame, event); if s_frame:
Td_sf(t) ==
    /\ pc[t] = "td_sf"
    /\ LET r == _stop_frame(ctl[t], Top(t), Back(t), ev[t], breakpoints)
       IN  IF r.raised
           THEN /\ Raise(t)
                /\ UNCHANGED <<ctl, sfr>>
           ELSE /\ ctl' = [ctl EXCEPT ![t] = r.c]
                /\ sfr' = [sfr EXCEPT ![t] = r.s]
                /\ pc' = [pc EXCEPT ![t] =
                            IF r.s.id # 0 THEN "td_pause" ELSE "td_ret"]
                /\ UNCHANGED <<threads, stack, sub, traceOn, runpc>>
    /\ UNCHANGED <<sstate, messages, breakpoints, ev, nid, hook, rpc, obs, calls, maxf, reply, quit, got, aux>>

\* A callback that goes on to notify without having written PAUSED.
Td_pause_unset(t) ==
    /\ pc[t] = "td_pause"
    /\ pc' = [pc EXCEPT ![t] = "td_put"]
    /\ UNCHANGED <<sstate, threads, ctl, messages, breakpoints, stack, sub, ev, sfr,
                   nid, traceOn, hook, runpc, rpc, obs, calls, maxf, reply, quit, got, aux>>

\* line 131: self._state = STATE_PAUSED
Td_pause(t) ==
    /\ pc[t] = "td_pause"
    /\ ctl' = [ctl EXCEPT ![t].state = STATE_PAUSED]
    /\ pc' = [pc EXCEPT ![t] = "td_put"]
    /\ UNCHANGED <<sstate, threads, messages, breakpoints, stack, sub, ev, sfr,
                   nid, traceOn, hook, runpc, rpc, obs, calls, maxf, reply, quit, got, aux>>

\* The frame of t with identity id (the event frame or its caller).
IndexOf(t, id) == IF Top(t).id = id THEN Len(stack[t]) ELSE Len(stack[t]) - 1
FrameOf(t, id) == stack[t][IndexOf(t, id)]

\* lines 134-135: make_thread_suspended(self._id, s_frame); put_message(msg)
Td_put(t) ==
    /\ pc[t] = "td_put"
    /\ IF ctl[t].dbg
       THEN /\ messages' = put_message(messages,
                              make_thread_suspended(t, FrameOf(t, sfr[t].id)))
            /\ stack' = [stack EXCEPT ![t][IndexOf(t, sfr[t].id)] =
                           [@ EXCEPT !.hits = IF @ < 2 THEN @ + 1 ELSE @]]
            /\ pc' = [pc EXCEPT ![t] = "td_wait"]
            /\ UNCHANGED <<threads, sub, traceOn, runpc>>
       ELSE /\ Raise(t)
            /\ UNCHANGED messages
    /\ UNCHANGED <<sstate, ctl, breakpoints, ev, sfr, nid, hook, rpc, obs, calls, maxf, reply, quit, got, aux>>

\* A wait that gives up after a while, whatever the state is.
_wait_timeout(t) ==
    /\ pc[t] = "td_wait"
    /\ pc' = [pc EXCEPT ![t] = "td_ret"]
    /\ UNCHANGED <<sstate, threads, ctl, messages, breakpoints, stack, sub, ev,
                   sfr, nid, traceOn, hook, runpc, rpc, obs, calls, maxf, reply, quit, got, aux>>

\* _wait(), lines 175-176: the loop ends once the state is not PAUSED.
_wait(t) ==
    /\ pc[t] = "td_wait"
    /\ ctl[t].state # STATE_PAUSED
    /\ pc' = [pc EXCEPT ![t] = "td_ret"]
    /\ UNCHANGED <<sstate, threads, ctl, messages, breakpoints, stack, sub, ev,
                   sfr, nid, traceOn, hook, runpc, rpc, obs, calls, maxf, reply, quit, got, aux>>

\* lines 122 and 140: the callback returns; after a 'return' event the frame
\* is gone.
Td_ret(t) ==
    /\ pc[t] = "td_ret"
    /\ IF ev[t] = "return"
       THEN Pop(t)
       ELSE /\ pc' = [pc EXCEPT ![t] = "code"]
            /\ UNCHANGED <<threads, stack, runpc>>
    /\ ev' = [ev EXCEPT ![t] = "none"]
    /\ sfr' = [sfr EXCEPT ![t] = None]
    /\ obs' = [obs EXCEPT ![t].hit = "no"]
    /\ UNCHANGED <<sstate, ctl, messages, breakpoints, sub, nid, traceOn, hook,
                   rpc, calls, maxf, reply, quit, got, aux>>

\* ------------------------------------------------ answers of the RPC server
\* Python values an export_ method returns
PyStr(s) == [kind |-> "str", v |-> s]
PyInt(n) == [kind |-> "int", v |-> n]
PyDict(d) == [kind |-> "dict", v |-> d]
\* the builtin type `file` of Python 2
BuiltinFile == [kind |-> "type", v |-> "file"]

\* xmlrpclib marshals strings, numbers and containers of them; a type object
\* makes dumps() raise TypeError, which the server turns into a fault.
Marshallable(val) == \A i \in 1..Len(val) : val[i].kind \in {"str", "int", "dict"}
Respond(method, val) ==
    IF Marshallable(val) THEN Result(method, val) ELSE Fault(method, "TypeError")

\* str(t_id)
str(t) == ToString(t)

\* The attributes of the adapter object; a name is the sequence of the
\* pieces it is concatenated from.
Exported == {"ping", "start", "stop", "resume", "resume_all", "step_over",
             "step_into", "step_out", "get_stack", "set_breakpoint", "evaluate",
             "execute", "list_threads", "get_messages"}
AdapterAttrs ==
    {<<"export_", m>> : m \in Exported}
        \cup {<<"quit">>, <<"run">>, <<"_dispatch">>, <<"_quit">>, <<"_debugger">>}
\* method names a client may send that are not exported: internal methods of
\* the adapter and a method of the session
Unexported == {"quit", "_dispatch", "get_thread"}

\* A resolver that looks the requested name up as it is.
_dispatch_any_attribute(method) ==
    IF <<method>> \in AdapterAttrs THEN <<method>> ELSE <<>>

\* _dispatch, lines 40-43: getattr(self, 'export_' + method); <<>> stands for
\* the AttributeError.
_dispatch(method) ==
    IF <<"export_", method>> \in AdapterAttrs THEN <<"export_", method>> ELSE <<>>

\* ------------------------------------------------ commands of the RPC thread
\* RPCDebuggerAdapter.run(), lines 49-50: the loop tests _quit only between
\* two calls of handle_request().  A handle_request() that returned after
\* _quit was written is followed by the test that ends the loop.
AtTest == quit /\ rpc.op = "idle" /\ calls < srv.seen

\* run() is inside handle_request(), which blocks until a request arrives.
Listening == srv.loop = "handle" /\ ~AtTest

\* The RPC server handles one request at a time, as long as run() is in
\* handle_request().
Accept ==
    /\ rpc.op = "idle"
    /\ Listening
    /\ calls > 0
    /\ calls' = calls - 1
    /\ UNCHANGED maxf

\* A request for a method that is not exported: _dispatch raises, or calls
\* the function it resolved.
Request(method) ==
    /\ Accept
    /\ LET func == _dispatch(method)
       IN  IF func = <<>>
           THEN /\ reply' = Fault(method, "Exception")
                /\ UNCHANGED quit
           ELSE /\ quit' = (quit \/ func = <<"quit">>)
                /\ reply' = Result(method, <<>>)
    /\ UNCHANGED <<sstate, threads, ctl, messages, breakpoints, stack, pc, sub,
                   ev, sfr, nid, traceOn, hook, runpc, rpc, obs, got, aux>>

\* export_start -> Ndb3.start()
export_start ==
    /\ Accept
    /\ sstate' = STATE_RUNNING
    /\ reply' = Respond("start", <<PyStr("OK")>>)
    /\ UNCHANGED <<threads, ctl, messages, breakpoints, stack, pc, sub, ev, sfr,
                   nid, traceOn, hook, runpc, rpc, obs, quit, got, aux>>

\* A command of one controller applied by the RPC thread: get_thread(t_id)
\* raises KeyError when the id is not in the map; resume()/step_into() drop a
\* frame reference; the answer is str(t_id).
\* The same with a thread map that keeps every controller it was given.
Command_any_thread(t, method, name, after) ==
    /\ Accept
    /\ ctl' = [ctl EXCEPT ![t] = after]
    /\ obs' = [obs EXCEPT ![t] = ObsCmd(t, name)]
    /\ threads' = Reap(threads, t, after, stack[t], FALSE)
    /\ reply' = For(t, Respond(method, <<PyStr(str(t))>>))
    /\ UNCHANGED <<sstate, messages, breakpoints, stack, pc, sub, ev, sfr, nid,
                   traceOn, hook, runpc, rpc, quit, got, aux>>

Command(t, method, name, after) ==
    /\ Accept
    /\ IF t \in threads
       THEN /\ ctl' = [ctl EXCEPT ![t] = after]
            /\ obs' = [obs EXCEPT ![t] = ObsCmd(t, name)]
            /\ threads' = Reap(threads, t, after, stack[t], FALSE)
            /\ reply' = For(t, Respond(method, <<PyStr(str(t))>>))
       ELSE /\ reply' = For(t, Fault(method, "KeyError"))
            /\ UNCHANGED <<ctl, obs, threads>>
    /\ UNCHANGED <<sstate, messages, breakpoints, stack, pc, sub, ev, sfr, nid,
                   traceOn, hook, runpc, rpc, quit, got, aux>>

export_resume(t) == Command(t, "resume", CMD_RUN, resume(ctl[t]))

export_step_over(t) == Command(t, "step_over", CMD_STEP_OVER, step_over(ctl[t]))

export_step_into(t) == Command(t, "step_into", CMD_STEP_INTO, step_into(ctl[t]))

export_step_out(t) == Command(t, "step_out", CMD_STEP_OUT, step_out(ctl[t]))

\* export_resume_all -> Ndb3.resume()
export_resume_all ==
    /\ Accept
    /\ sstate' = STATE_RUNNING
    /\ ctl' = [t \in Tids |-> IF t \in threads THEN resume(ctl[t]) ELSE ctl[t]]
    /\ obs' = [t \in Tids |-> IF t \in threads THEN ObsCmd(t, CMD_RUN) ELSE obs[t]]
    /\ threads' = {t \in threads : t \in Reap(threads, t, resume(ctl[t]), stack[t], FALSE)}
    /\ reply' = Respond("resume_all", <<PyStr("OK")>>)
    /\ UNCHANGED <<messages, breakpoints, stack, pc, sub, ev, sfr, nid, traceOn,
                   hook, runpc, rpc, quit, got, aux>>

\* export_set_breakpoint -> Ndb3.set_breakpoint(filename, line); line 119
\* returns (file, line), where `file` is the builtin type, not the parameter.
export_set_breakpoint(filename, line) ==
    /\ Accept
    /\ breakpoints' = set_breakpoint(breakpoints, filename, line)
    /\ reply' = Respond("set_breakpoint", <<BuiltinFile, PyInt(line)>>)
    /\ UNCHANGED <<sstate, threads, ctl, messages, stack, pc, sub, ev, sfr, nid,
                   traceOn, hook, runpc, rpc, obs, quit, got, aux>>

\* Calling an object, as in `self._f_current()`: neither a frame object nor
\* None is callable, so the call raises TypeError.
Callable(ref) == FALSE

\* The walk of get_stack, lines 233-238, from frame i of a stack toward its
\* root: each kept entry is inserted in front of the entries of the frames
\* nearer to the top.
RECURSIVE StackFrom(_, _)
StackFrom(st, i) ==
    IF i = 0 THEN <<>>
    ELSE StackFrom(st, i - 1)
             \o (IF basename(st[i].file) \in _IGNORE_FILES THEN <<>>
                 ELSE << <<basename(st[i].file), st[i].line>> >>)

\* Position in a stack of the frame a reference names (0: none).
Position(st, ref) ==
    IF \E i \in 1..Len(st) : st[i].id = ref.id
    THEN CHOOSE i \in 1..Len(st) : st[i].id = ref.id
    ELSE 0

\* Ndb3Thread.get_stack, lines 224-239: line 232 calls self._f_current.
get_stack(c, st) ==
    IF ~Callable(c.current)
    THEN [exc |-> "TypeError", val |-> <<>>]
    ELSE [exc |-> "none", val |-> StackFrom(st, Position(st, c.current))]

\* export_get_stack -> get_thread(t_id).get_stack()
export_get_stack(t) ==
    /\ Accept
    /\ reply' = For(t, IF t \notin threads THEN Fault("get_stack", "KeyError")
                       ELSE LET r == get_stack(ctl[t], stack[t])
                            IN  IF r.exc # "none" THEN Fault("get_stack", r.exc)
                                ELSE Result("get_stack", r.val))
    /\ UNCHANGED <<sstate, threads, ctl, messages, breakpoints, stack, pc, sub,
                   ev, sfr, nid, traceOn, hook, runpc, rpc, obs, quit, got, aux>>

\* Texts a client sends to evaluate() and execute(), and the exception each
\* raises when it is compiled or run in the bindings of a frame ("none": it
\* runs to its end).
Texts == {"x", "x +", "1/0", "exit()"}
Raises(text) ==
    CASE text = "x +" -> "SyntaxError"
      [] text = "1/0" -> "ZeroDivisionError"
      [] text = "exit()" -> "SystemExit"
      [] OTHER -> "none"

\* The classes an `except Exception` clause catches; SystemExit derives from
\* BaseException only.
ExceptionClasses == {"SyntaxError", "ZeroDivisionError", "AttributeError"}

\* try ... except SyntaxError ... except Exception, lines 250-256 and 264-272:
\* the result is the value, or the exception caught; another exception leaves
\* the method.
Catch(exc, value) ==
    IF exc = "none" THEN [exc |-> "none", result |-> value]
    ELSE IF exc \in ExceptionClasses THEN [exc |-> "none", result |-> exc]
    ELSE [exc |-> exc, result |-> ""]

\* Ndb3Thread.evaluate, lines 245-257: self._f_current.f_globals is read
\* before eval() runs.
evaluate(c, expr) ==
    Catch(IF c.current = None THEN "AttributeError" ELSE Raises(expr), "value")

\* Ndb3Thread.execute, lines 259-273: compile() runs before
\* self._f_current.f_globals is read; the result of a success is "".
execute(c, expr) ==
    Catch(IF Raises(expr) = "SyntaxError" THEN "SyntaxError"
          ELSE IF c.current = None THEN "AttributeError"
          ELSE Raises(expr), "")

\* debugger_plugin.core.serialize.serialize(name, expr, result): the record
\* sent for a value.
serialize(name, expr, result) ==
    PyDict([name |-> name, expr |-> expr, value |-> result])

\* export_evaluate / export_execute, lines 121-137
Evaluation(t, method, e_str, r) ==
    /\ Accept
    /\ reply' = For(t, IF t \notin threads THEN Fault(method, "KeyError")
                       ELSE IF r.exc # "none" THEN Fault(method, r.exc)
                       ELSE Respond(method, <<serialize(e_str, e_str, r.result)>>))
    /\ UNCHANGED <<sstate, threads, ctl, messages, breakpoints, stack, pc, sub,
                   ev, sfr, nid, traceOn, hook, runpc, rpc, obs, quit, got, aux>>

export_evaluate(t, e_str) == Evaluation(t, "evaluate", e_str, evaluate(ctl[t], e_str))

export_execute(t, e_str) == Evaluation(t, "execute", e_str, execute(ctl[t], e_str))

\* A loop test that never finds the queue empty.
empty_never(q) == FALSE

\* Queue.empty()
empty(q) ==
    q = <<>>

\* export_get_messages -> Ndb3.get_messages(), line 373: result = []
export_get_messages ==
    /\ Accept
    /\ rpc' = [RpcIdle EXCEPT !.op = "get_messages", !.k = 1, !.snap = messages]
    /\ reply' = NoReply
    /\ UNCHANGED <<sstate, threads, ctl, messages, breakpoints, stack, pc, sub,
                   ev, sfr, nid, traceOn, hook, runpc, obs, quit, got, aux>>

\* Ndb3.get_messages(), lines 374 and 376: the loop test, and the return of
\* the result once the queue was found empty.
Gm_empty ==
    /\ rpc.op = "get_messages" /\ rpc.k = 1
    /\ IF empty(messages)
       THEN /\ rpc' = RpcIdle
            /\ reply' = Result("get_messages", rpc.res)
            /\ got' = got \o rpc.res
       ELSE /\ rpc' = [rpc EXCEPT !.k = 2]
            /\ UNCHANGED <<reply, got>>
    /\ UNCHANGED <<sstate, threads, ctl, messages, breakpoints, stack, pc, sub,
                   ev, sfr, nid, traceOn, hook, runpc, obs, calls, maxf, quit,
                   aux>>

\* Ndb3.get_messages(), line 375: result.append(self._messages.get(block=True));
\* get() waits while the queue is empty.
Gm_get ==
    /\ rpc.op = "get_messages" /\ rpc.k = 2
    /\ messages # <<>>
    /\ rpc' = [rpc EXCEPT !.res = Append(@, Head(messages)), !.k = 1]
    /\ messages' = Tail(messages)
    /\ UNCHANGED <<sstate, threads, ctl, breakpoints, stack, pc, sub, ev, sfr,
                   nid, traceOn, hook, runpc, obs, calls, maxf, reply, quit, got, aux>>

\* export_stop -> Ndb3.stop(), lines 310-312: the state is set and the
\* iteration over the keys of the map begins.
Stop_begin ==
    /\ Accept
    /\ sstate' = STATE_TERMINATED
    /\ rpc' = [RpcIdle EXCEPT !.op = "stop", !.todo = threads]
    /\ reply' = NoReply
    /\ UNCHANGED <<threads, ctl, messages, breakpoints, stack, pc, sub, ev, sfr,
                   nid, traceOn, hook, runpc, obs, quit, got, aux>>

\* Ndb3.stop(), line 313: self._threads[t_id] for the next key, which starts
\* Ndb3Thread.stop() on that controller.
Stop_next(t) ==
    /\ rpc.op = "stop" /\ rpc.cur = 0
    /\ t \in rpc.todo
    /\ t \in threads
    /\ rpc' = [rpc EXCEPT !.todo = @ \ {t}, !.cur = t, !.k = 1]
    /\ UNCHANGED <<sstate, threads, ctl, messages, breakpoints, stack, pc, sub,
                   ev, sfr, nid, traceOn, hook, runpc, obs, calls, maxf, reply, quit, got, aux>>

\* Ndb3.stop(), lines 312-313, for a key whose controller was reclaimed since
\* the iteration began: the iterator skips it, or the lookup raises KeyError
\* and stop() ends there, which the client receives as a fault.
Stop_gone(t, raises) ==
    /\ rpc.op = "stop" /\ rpc.cur = 0
    /\ t \in rpc.todo
    /\ t \notin threads
    /\ rpc' = IF raises THEN RpcIdle ELSE [rpc EXCEPT !.todo = @ \ {t}]
    /\ reply' = IF raises THEN Fault("stop", "KeyError") ELSE reply
    /\ UNCHANGED <<sstate, threads, ctl, messages, breakpoints, stack, pc, sub,
                   ev, sfr, nid, traceOn, hook, runpc, obs, calls, maxf, quit, got, aux>>

\* Ndb3Thread.stop() run by the RPC thread, lines 189-190; with
\* self._debugger already None the call raises AttributeError and Ndb3.stop()
\* ends there, which the client receives as a fault.
Stop_put ==
    /\ rpc.op = "stop" /\ rpc.cur # 0 /\ rpc.k = 1
    /\ LET t == rpc.cur
       IN  IF ctl[t].dbg
           THEN /\ messages' = put_message(messages, make_thread_ended(t))
                /\ rpc' = [rpc EXCEPT !.k = 2]
                /\ obs' = [obs EXCEPT ![t] = ObsCmd(t, "stop")]
                /\ UNCHANGED <<threads, reply>>
           ELSE /\ rpc' = RpcIdle
                /\ threads' = Reap(threads, t, ctl[t], stack[t], FALSE)
                /\ reply' = Fault("stop", "AttributeError")
                /\ UNCHANGED <<messages, obs>>
    /\ UNCHANGED <<sstate, ctl, breakpoints, stack, pc, sub, ev, sfr, nid,
                   traceOn, hook, runpc, calls, maxf, quit, got, aux>>

\* Ndb3Thread.stop() run by the RPC thread, lines 192-197.
Stop_assign ==
    /\ rpc.op = "stop" /\ rpc.cur # 0 /\ rpc.k \in 2..Len(StopSteps)
    /\ LET t == rpc.cur
           after == stop_assign(ctl[t], rpc.k)
       IN  /\ ctl' = [ctl EXCEPT ![t] = after]
           /\ IF rpc.k = Len(StopSteps)
              THEN /\ rpc' = [rpc EXCEPT !.cur = 0, !.k = 0]
                   /\ threads' = Reap(threads, t, after, stack[t], FALSE)
              ELSE /\ rpc' = [rpc EXCEPT !.k = @ + 1]
                   /\ UNCHANGED threads
    /\ UNCHANGED <<sstate, messages, breakpoints, stack, pc, sub, ev, sfr, nid,
                   traceOn, hook, runpc, obs, calls, maxf, reply, quit, got, aux>>

\* Ndb3.stop(), line 314, and export_stop, line 68: the iteration is over and
\* the request is answered "OK".
Stop_end ==
    /\ rpc.op = "stop" /\ rpc.cur = 0 /\ rpc.todo = {}
    /\ rpc' = RpcIdle
    /\ reply' = Respond("stop", <<PyStr("OK")>>)
    /\ stopped' = [stopped EXCEPT !.ret = TRUE]
    /\ UNCHANGED <<sstate, threads, ctl, messages, breakpoints, stack, pc, sub,
                   ev, sfr, nid, traceOn, hook, runpc, obs, calls, maxf, quit, got,
                   legacy>>

\* The cyclic collector reclaims a controller no live frame traces into.
GcCollect(t) ==
    /\ t \in threads
    /\ ~HasTraced(stack[t])
    /\ ~RpcHolds(t)
    /\ threads' = threads \ {t}
    /\ UNCHANGED <<sstate, ctl, messages, breakpoints, stack, pc, sub, ev, sfr,
                   nid, traceOn, hook, runpc, rpc, obs, calls, maxf, reply, quit, got, aux>>

\* ------------------------------------------------------------ specification
Debuggee(t) ==
    \/ \E file \in CallFiles : DoCall(t, file)
    \/ DoLine(t)
    \/ DoReturn(t)
    \/ DoReturnUntraced(t)
    \/ Td_origin(t)
    \/ Td_stop_put(t)
    \/ Td_stop_assign(t)
    \/ Td_term(t)
    \/ Td_cur(t)
    \/ Td_sf(t)
    \/ Td_pause(t)
    \/ Td_put(t)
    \/ _wait(t)
    \/ Td_ret(t)

Runner ==
    \/ Run_wait_start
    \/ Run_settrace
    \/ Run_unset
    \/ Run_wait_threads
    \/ Run_finally

Rpc ==
    \/ export_start
    \/ \E t \in Tids : export_resume(t)
    \/ \E t \in Tids : export_step_over(t)
    \/ \E t \in Tids : export_step_into(t)
    \/ \E t \in Tids : export_step_out(t)
    \/ export_resume_all
    \/ \E f \in BreakFiles, l \in Lines : export_set_breakpoint(f, l)
    \/ export_get_messages
    \/ Gm_empty
    \/ Gm_get
    \/ Stop_begin
    \/ \E t \in Tids : Stop_next(t)
    \/ \E t \in Tids, raises \in BOOLEAN : Stop_gone(t, raises)
    \/ Stop_put
    \/ Stop_assign
    \/ Stop_end

\* A script that runs in the main thread only.
Next ==
    \/ \E t \in Tids : Debuggee(t)
    \/ Runner
    \/ Rpc
    \/ \E t \in Tids : GcCollect(t)

Spec == Init /\ [][Next]_vars

\* A script that starts a second thread, debugged as in the end-to-end
\* scenario: the client has registered one breakpoint before start(), and
\* then uses the commands of the whole session only.
InitMT ==
    /\ sstate = STATE_PAUSED
    /\ threads = {}
    /\ ctl = [t \in Tids |-> NoCtl]
    /\ messages = <<>>
    /\ breakpoints = set_breakpoint(<<>>, ScriptRel, 1)
    /\ stack = [t \in Tids |-> <<>>]
    /\ pc = [t \in Tids |-> "unborn"]
    /\ sub = [t \in Tids |-> 0]
    /\ ev = [t \in Tids |-> "none"]
    /\ sfr = [t \in Tids |-> None]
    /\ nid = [t \in Tids |-> 0]
    /\ traceOn = [t \in Tids |-> FALSE]
    /\ hook = FALSE
    /\ runpc = "wait_start"
    /\ rpc = RpcIdle
    /\ calls = MaxCallsMT
    /\ maxf = MaxFramesMT
    /\ reply = NoReply
    /\ quit = FALSE
    /\ got = <<>>
    /\ stopped = NotStopped
    /\ AuxInit
    /\ obs = [t \in Tids |-> NoObs]

RpcMT ==
    \/ export_start
    \/ export_resume_all
    \/ export_get_messages
    \/ Gm_empty
    \/ Gm_get
    \/ Stop_begin
    \/ \E t \in Tids : Stop_next(t)
    \/ \E t \in Tids, raises \in BOOLEAN : Stop_gone(t, raises)
    \/ Stop_put
    \/ Stop_assign
    \/ Stop_end

NextMT ==
    \/ \E t \in Tids : ThreadStart(t)
    \/ \E t \in Tids : Debuggee(t)
    \/ Runner
    \/ RpcMT
    \/ \E t \in Tids : GcCollect(t)

SpecMT == InitMT /\ [][NextMT]_vars

\* The whole RPC interface used on a single-threaded script.
InitRpc ==
    /\ sstate = STATE_PAUSED
    /\ threads = {}
    /\ ctl = [t \in Tids |-> NoCtl]
    /\ messages = <<>>
    /\ breakpoints = <<>>
    /\ stack = [t \in Tids |-> <<>>]
    /\ pc = [t \in Tids |-> "unborn"]
    /\ sub = [t \in Tids |-> 0]
    /\ ev = [t \in Tids |-> "none"]
    /\ sfr = [t \in Tids |-> None]
    /\ nid = [t \in Tids |-> 0]
    /\ traceOn = [t \in Tids |-> FALSE]
    /\ hook = FALSE
    /\ runpc = "wait_start"
    /\ rpc = RpcIdle
    /\ calls = MaxCallsRpc
    /\ maxf = MaxFramesRpc
    /\ reply = NoReply
    /\ quit = FALSE
    /\ got = <<>>
    /\ stopped = NotStopped
    /\ AuxInit
    /\ obs = [t \in Tids |-> NoObs]

RpcAll ==
    \/ Rpc
    \/ \E method \in Unexported : Request(method)
    \/ \E t \in Tids : export_get_stack(t)
    \/ \E t \in Tids, e_str \in Texts : export_evaluate(t, e_str)
    \/ \E t \in Tids, e_str \in Texts : export_execute(t, e_str)

NextRpc ==
    \/ \E t \in Tids : Debuggee(t)
    \/ Runner
    \/ RpcAll
    \/ \E t \in Tids : GcCollect(t)

SpecRpc == InitRpc /\ [][NextRpc]_vars

\* The same single-threaded script under a fair scheduler, the client having
\* registered one breakpoint before start(): the operating system lets every
\* thread that can take a step take one eventually (the debuggee thread, the
\* thread of Ndb3.run(), the RPC thread inside a request); the client is not
\* obliged to send requests.
InitFair ==
    /\ sstate = STATE_PAUSED
    /\ threads = {}
    /\ ctl = [t \in Tids |-> NoCtl]
    /\ messages = <<>>
    /\ breakpoints = set_breakpoint(<<>>, ScriptRel, 1)
    /\ stack = [t \in Tids |-> <<>>]
    /\ pc = [t \in Tids |-> "unborn"]
    /\ sub = [t \in Tids |-> 0]
    /\ ev = [t \in Tids |-> "none"]
    /\ sfr = [t \in Tids |-> None]
    /\ nid = [t \in Tids |-> 0]
    /\ traceOn = [t \in Tids |-> FALSE]
    /\ hook = FALSE
    /\ runpc = "wait_start"
    /\ rpc = RpcIdle
    /\ calls = MaxCalls
    /\ maxf = MaxFramesMT
    /\ reply = NoReply
    /\ quit = FALSE
    /\ got = <<>>
    /\ stopped = NotStopped
    /\ AuxInit
    /\ obs = [t \in Tids |-> NoObs]

\* The steps of the RPC thread inside a request it has accepted.
RpcProgress ==
    \/ Gm_empty
    \/ Gm_get
    \/ \E t \in Tids : Stop_next(t)
    \/ \E t \in Tids, raises \in BOOLEAN : Stop_gone(t, raises)
    \/ Stop_put
    \/ Stop_assign
    \/ Stop_end

Fairness ==
    /\ \A t \in Tids : WF_vars(Debuggee(t))
    /\ WF_vars(Runner)
    /\ WF_vars(RpcProgress)

SpecFair == InitFair /\ [][Next]_vars /\ Fairness

\* ------------------------------------------------- the adapter's shutdown
\* ndb3.py __main__, lines 431-433: when dbg.run() has returned the main
\* thread calls rpcadapter.quit(), which writes _quit = True (line 54) and
\* nothing else.  The adapter's thread is then inside handle_request():
\* serving a request (the test of line 49 follows it), or blocked waiting
\* for the next one.
quit_adapter(loop, busy) ==
    [loop |-> loop, seen |-> IF busy THEN calls + 1 ELSE calls]

Main_quit ==
    /\ runpc = "done"
    /\ ~quit
    /\ quit' = TRUE
    /\ srv' = quit_adapter(srv.loop, rpc.op # "idle")
    /\ UNCHANGED <<master, client, net, ser, bplog, slave, stopped>>
    /\ UNCHANGED <<sstate, threads, ctl, messages, breakpoints, stack, pc, sub,
                   ev, sfr, nid, traceOn, hook, runpc, rpc, obs, calls, maxf,
                   reply, got>>

\* RPCDebuggerAdapter.run(), line 49: the test after a handle_request() that
\* returned with _quit set ends the loop, and the thread.
Adapter_run_test ==
    /\ srv.loop = "handle"
    /\ AtTest
    /\ srv' = [srv EXCEPT !.loop = "ended"]
    /\ UNCHANGED <<master, client, net, ser, bplog, slave, stopped>>
    /\ UNCHANGED <<sstate, threads, ctl, messages, breakpoints, stack, pc, sub,
                   ev, sfr, nid, traceOn, hook, runpc, rpc, obs, calls, maxf,
                   reply, quit, got>>

\* A session from its start to the end of the process: the script of the
\* fair scheduler's scenario, a client that starts it, resumes it and reads
\* the events.
RpcAdapter ==
    \/ export_start
    \/ export_resume_all
    \/ export_get_messages
    \/ Gm_empty
    \/ Gm_get

NextAdapter ==
    \/ Debuggee(MainTid)
    \/ Runner
    \/ RpcAdapter
    \/ Main_quit
    \/ Adapter_run_test

\* Every thread that can take a step takes one eventually; the client is not
\* obliged to send requests.
FairnessAdapter ==
    /\ WF_vars(Debuggee(MainTid))
    /\ WF_vars(Runner)
    /\ WF_vars(Gm_empty \/ Gm_get)
    /\ WF_vars(Main_quit)
    /\ WF_vars(Adapter_run_test)

SpecAdapter == InitFair /\ [][NextAdapter]_vars /\ FairnessAdapter

\* ------------------------------------------------------ the legacy master
\* src/debugger-plugin/ndb.py: the IDE's proxy of the DebuggerSlave.  Several
\* threads of the IDE call the one DebuggerMaster.

\* Every variable of the ndb3 engine: the legacy master, the serializer and
\* the registry log never touch them.
engine == <<sstate, threads, ctl, messages, stack, pc, sub, ev, sfr, nid,
            traceOn, hook, runpc, rpc, calls, maxf, obs, reply, quit, got,
            stopped>>

\* The operations that hand one method of the slave to __safe_call.
Operations == {"get_events", "set_break", "debug_stop", "debug_over",
               "debug_into", "debug_out", "debug_continue", "debug_eval",
               "debug_exec"}

\* What the slave's XML-RPC server answers: do_into() returns None, which the
\* server (allow_none is off) cannot marshal, so the proxy raises a Fault.
Remote(op) == IF op = "debug_into" THEN "Fault" ELSE "value"

\* What an operation gives back when __safe_call returned: debug_continue
\* has no return statement.
Returned(op, how) == IF op = "debug_continue" THEN "None" ELSE how

\* connect(), line 85: the loop test.
connect_one_more(attemps) ==
    attemps >= 0
connect_more(attemps) ==
    attemps > 0

\* is_alive(), lines 97-105: True if __safe_call returned, False if it raised
\* DebuggerConnectionError or any other Exception.
is_alive(how) == IF how \in {"value", "None"} THEN "True" ELSE "False"

\* The operation of thread c is over: how is the value __safe_call returned
\* or the exception that left it (or left the lookup of self.slave.<method>).
\* Inside connect() a False of is_alive costs one attempt (line 88).
Leave(cl, how) ==
    IF cl.op \in Operations
    THEN [cl EXCEPT !.pc = "idle",
                    !.out = IF how \in {"value", "None"} THEN Returned(cl.op, how)
                            ELSE how]
    ELSE IF cl.op = "is_alive" \/ is_alive(how) = "True"
         THEN [cl EXCEPT !.pc = "idle", !.out = is_alive(how)]
         ELSE [cl EXCEPT !.pc = "loop", !.attemps = @ - 1]

\* A thread calls an operation of the master.  connect(attemps) starts at
\* line 84, the others with the lookup of the slave's method.
M_begin(c, op, n) ==
    /\ client[c].pc = "idle"
    /\ client' = [client EXCEPT ![c] =
           [ClientIdle EXCEPT !.op = op, !.n = n, !.attemps = n,
                              !.pc = IF op = "connect" THEN "set" ELSE "attr"]]
    /\ UNCHANGED <<master, net, ser, bplog, breakpoints, srv, slave, engine>>

\* connect(), line 84: self.slave = xmlrpclib.Server(...)
Conn_set(c) ==
    /\ client[c].pc = "set"
    /\ master' = [master EXCEPT !.slave = "proxy"]
    /\ client' = [client EXCEPT ![c].pc = "loop"]
    /\ UNCHANGED <<net, ser, bplog, breakpoints, srv, slave, engine>>

\* connect(), lines 85-89: one more is_alive(), or return False.
Conn_loop(c) ==
    /\ client[c].pc = "loop"
    /\ client' = [client EXCEPT ![c] =
           IF connect_more(@.attemps) THEN [@ EXCEPT !.pc = "attr"]
           ELSE [@ EXCEPT !.pc = "idle", !.out = "False"]]
    /\ UNCHANGED <<master, net, ser, bplog, breakpoints, srv, slave, engine>>

\* The argument of __safe_call is evaluated first: self.slave.<method>.
\* With self.slave still None that raises AttributeError.
M_attr(c) ==
    /\ client[c].pc = "attr"
    /\ client' = [client EXCEPT ![c] =
           IF master.slave = "None"
           THEN Leave([@ EXCEPT !.sit = "never"], "AttributeError")
           ELSE [@ EXCEPT !.pc = "test"]]
    /\ UNCHANGED <<master, net, ser, bplog, breakpoints, srv, slave, engine>>

\* __safe_call, lines 68-69: if self.slave is None: return
Sc_test(c) ==
    /\ client[c].pc = "test"
    /\ client' = [client EXCEPT ![c] =
           IF master.slave = "None"
           THEN Leave([@ EXCEPT !.sit = "never"], "None")
           ELSE [@ EXCEPT !.pc = "acquire"]]
    /\ UNCHANGED <<master, net, ser, bplog, breakpoints, srv, slave, engine>>

\* __safe_call, line 71: self.lock.acquire() blocks while the lock is held.
Sc_acquire(c) ==
    /\ client[c].pc = "acquire"
    /\ master.lock = 0
    /\ master' = [master EXCEPT !.lock = c]
    /\ client' = [client EXCEPT ![c].pc = "call"]
    /\ UNCHANGED <<net, ser, bplog, breakpoints, srv, slave, engine>>

\* __safe_call, line 73: func(*args), the XML-RPC round trip.  A socket that
\* does not answer raises socket.error.
Sc_call(c) ==
    /\ client[c].pc = "call"
    /\ client' = [client EXCEPT ![c] =
           [@ EXCEPT !.pc = "finally",
                     !.pings = IF client[c].op = "connect" THEN client[c].pings + 1
                               ELSE client[c].pings,
                     !.sit = IF net = "down" THEN "lost" ELSE client[c].sit,
                     !.how = IF net = "down" THEN "socket.error"
                             ELSE Remote(client[c].op)]]
    /\ UNCHANGED <<master, net, ser, bplog, breakpoints, srv, slave, engine>>

\* __safe_call, lines 76-77: the finally clause releases the lock however
\* the call ended.
safe_call_release_on_return(lock, how) ==
    IF how = "value" THEN 0 ELSE lock
safe_call_release(lock, how) ==
    0

\* __safe_call, lines 74-75: socket.error becomes DebuggerConnectionError;
\* any other exception goes on unchanged.
safe_call_except(how) ==
    IF how = "socket.error" THEN "DebuggerConnectionError" ELSE how

\* __safe_call, lines 73-77: the call is over; the lock is released and the
\* value or the exception leaves __safe_call.
Sc_finally(c) ==
    /\ client[c].pc = "finally"
    /\ master' = [master EXCEPT !.lock = safe_call_release(@, client[c].how)]
    /\ client' = [client EXCEPT ![c] = Leave(@, safe_call_except(@.how))]
    /\ UNCHANGED <<net, ser, bplog, breakpoints, srv, slave, engine>>

\* The slave's server starts or stops listening (start_session, lines
\* 307-310: it serves until do_stop set quit), or the link breaks.
NetChange ==
    /\ net' = IF net = "up" THEN "down" ELSE "up"
    /\ UNCHANGED <<master, client, ser, bplog, breakpoints, srv, slave, engine>>

MasterCalls(c) ==
    \/ \E op \in Operations \cup {"is_alive"} : M_begin(c, op, 0)
    \/ \E n \in (0 - 1)..MaxAttemps : M_begin(c, "connect", n)
    \/ Conn_set(c)
    \/ Conn_loop(c)
    \/ M_attr(c)
    \/ Sc_test(c)
    \/ Sc_acquire(c)
    \/ Sc_call(c)
    \/ Sc_finally(c)

NextMaster ==
    \/ \E c \in Clients : MasterCalls(c)
    \/ NetChange

SpecMaster == Init /\ [][NextMaster]_vars

\* ---------------------------------------------------- the legacy serializer
\* src/debugger-plugin/serialize.py.  A value graph is a heap: object 0 is
\* the int 1, objects 1..MaxObjs are an int, a dict, a list or an instance.
\* An object refers to itself ("me"), to the next object ("next"; the last
\* one to the int) and to the int ("num").
Types == {"int", "dict", "list", "instance"}
RefNames == {"me", "next", "num"}
\* The order in which items(), enumerate() and dir() give the references.
RefOrder == <<"me", "next", "num">>
Letter == <<"a", "b", "c", "d", "e", "f">>

Objects ==
    {o \in [type : Types, refs : SUBSET RefNames] : o.type = "int" => o.refs = {}}
Heaps == [1..MaxObjs -> Objects]

TypeOf(heap, result) == IF result = 0 THEN "int" ELSE heap[result].type
Target(heap, result, r) ==
    IF r = "me" THEN result
    ELSE IF r = "next" /\ result < Len(heap) THEN result + 1
    ELSE 0
\* The key of a dict item; the name of an instance's attribute: the int is
\* held in a private attribute.
KeyOf(result, r) ==
    IF r = "next" THEN Letter[result] ELSE IF r = "me" THEN "me" ELSE "n"
AttrOf(result, r) ==
    IF r = "next" THEN Letter[result] ELSE IF r = "me" THEN "me" ELSE "_n"
Private(attr) == attr = "_n"

\* repr(result): the text of the int, or a text that names the container.
repr(heap, result) == IF result = 0 THEN "1" ELSE <<TypeOf(heap, result), result>>

\* GenericSerializer.plain_types, of which the heap has the int only.
plain_types == {"bool", "buffer", "file", "float", "int", "long", "NoneType",
                "object", "slice", "str", "type"}

\* Line 28: the node is returned without children.
childless_late(depth, has_childs) ==
    depth = 0 - 1 \/ ~has_childs
childless(depth, has_childs) ==
    depth = 0 \/ ~has_childs

\* The references of a container that become children, in order: every item
\* of a dict or list, the public attributes of an instance (lines 48-51).
ChildRefs(heap, result) ==
    LET Kept(r) == /\ r \in heap[result].refs
                   /\ TypeOf(heap, result) = "instance" => ~Private(AttrOf(result, r))
    IN  SelectSeq(RefOrder, Kept)

\* The name and the expression of the k-th child (lines 34-35, 42-43, 54-55).
ChildName(heap, result, rs, k) ==
    IF TypeOf(heap, result) = "dict" THEN KeyOf(result, rs[k])
    ELSE IF TypeOf(heap, result) = "list" THEN k - 1
    ELSE AttrOf(result, rs[k])
ChildExpr(heap, expr, result, rs, k) ==
    IF TypeOf(heap, result) = "instance"
    THEN <<expr, ".", ChildName(heap, result, rs, k)>>
    ELSE <<expr, "[", ChildName(heap, result, rs, k), "]">>

RECURSIVE serialize_legacy(_, _, _, _, _)
\* GenericSerializer.serialize(name, expr, result, depth), lines 14-63.  The
\* node has the key 'childs' only if line 31 was reached.
serialize_legacy(heap, name, expr, result, depth) ==
    LET has_childs == TypeOf(heap, result) \notin plain_types
        s_res == [name |-> name, expr |-> expr, value |-> repr(heap, result),
                  type |-> TypeOf(heap, result), has_childs |-> has_childs]
        rs == ChildRefs(heap, result)
    IN  IF childless(depth, has_childs) THEN s_res
        ELSE [name |-> name, expr |-> expr, value |-> repr(heap, result),
              type |-> TypeOf(heap, result), has_childs |-> has_childs,
              childs |-> [k \in 1..Len(rs) |->
                  serialize_legacy(heap, ChildName(heap, result, rs, k),
                                   ChildExpr(heap, expr, result, rs, k),
                                   Target(heap, result, rs[k]), depth - 1)]]

\* A caller holds a value graph and a depth, none of them serialized yet.
InitSer ==
    /\ Ndb3_init
    /\ master = DebuggerMaster_init
    /\ client = [c \in Clients |-> ClientIdle]
    /\ net = "down"
    /\ bplog = <<>>
    /\ srv = RPCDebuggerAdapter_init
    /\ slave = DebuggerSlave_init
    /\ ser \in [heap : Heaps, depth : 0..MaxDepth, done : {FALSE}, res : {<<>>}]

\* The caller serializes object 1 of its graph.
Ser_serialize ==
    /\ ~ser.done
    /\ ser' = [ser EXCEPT !.done = TRUE,
                          !.res = serialize_legacy(ser.heap, "v", "v", 1, ser.depth)]
    /\ UNCHANGED <<master, client, net, bplog, breakpoints, srv, slave, engine>>

NextSer == Ser_serialize

SpecSer == InitSer /\ [][NextSer]_vars

\* ------------------------------------------------------- the legacy slave
\* src/debugger-plugin/ndb.py, DebuggerSlave: the debuggee thread (bdb) calls
\* user_call, user_line, user_return or user_exception where it stops; the
\* thread of start_session serves the do_ operations the master sends.
UserStops == {"user_call", "user_line", "user_return", "user_exception"}
SlaveCommands == {"over", "into", "return", "continue", "stop"}

\* Queue.put of a command; the entry records how many stops the debuggee had
\* made when the command was sent.
SendCommand(sl, name) ==
    [sl EXCEPT !.commands = Append(@, [name |-> name, at |-> sl.stops])]

\* The do_ operation that puts `name`: do_over and do_out (lines 365, 381)
\* do nothing without a current frame, do_stop (line 398) sets quit.
do_command(sl, name) ==
    LET put == IF name \in {"over", "return"} /\ ~sl.current_frame
               THEN sl ELSE SendCommand(sl, name)
    IN  [put EXCEPT !.quit = (sl.quit \/ name = "stop"), !.sent = sl.sent + 1]

\* user_call .. user_exception, lines 316-350, up to the blocking get: the
\* current frame is set and the event published.  After set_quit() bdb
\* raises BdbQuit instead of calling them.
Sl_user(kind) ==
    /\ slave.pc = "running"
    /\ ~slave.quit
    /\ slave.stops < MaxStops
    /\ slave' = [slave EXCEPT !.pc = "waiting", !.current_frame = TRUE,
                              !.events = Append(@, kind), !.stops = @ + 1]
    /\ UNCHANGED <<master, client, net, ser, bplog, breakpoints, srv, engine>>

\* __wait_for_command, line 296: commands.get(block=True) returns the oldest
\* queued command; the callback returns and the debuggee goes on (after
\* do_stop bdb ends it).
Sl_wait_for_command ==
    /\ slave.pc = "waiting"
    /\ slave.commands # <<>>
    /\ slave' = [slave EXCEPT !.pc = "running", !.commands = Tail(@)]
    /\ UNCHANGED <<master, client, net, ser, bplog, breakpoints, srv, engine>>

\* start_session serves a do_ request, lines 309-310, as long as quit is
\* not set.
Sl_do(name) ==
    /\ ~slave.quit
    /\ slave.sent < MaxCmds
    /\ slave' = do_command(slave, name)
    /\ UNCHANGED <<master, client, net, ser, bplog, breakpoints, srv, engine>>

\* Debugger.run, lines 201-203: the script is over, or bdb ended it after
\* set_quit(); user_eof publishes 'EOF'.
Sl_eof ==
    /\ slave.pc = "running"
    /\ slave' = [slave EXCEPT !.pc = "over", !.events = Append(@, "EOF")]
    /\ UNCHANGED <<master, client, net, ser, bplog, breakpoints, srv, engine>>

NextSlave ==
    \/ \E kind \in UserStops : Sl_user(kind)
    \/ Sl_wait_for_command
    \/ \E name \in SlaveCommands : Sl_do(name)
    \/ Sl_eof

SpecSlave == Init /\ [][NextSlave]_vars

\* ------------------------------------------------- the breakpoint registry
\* Ndb3.set_breakpoint() and is_breakpoint() used on their own: a client
\* sets breakpoints, in any spelling of a path, before anything runs.
RegFiles == BreakFiles \cup {LibFile}

Reg_set(filename, line) ==
    /\ Len(bplog) < MaxSets
    /\ breakpoints' = set_breakpoint(breakpoints, filename, line)
    /\ bplog' = Append(bplog, <<filename, line>>)
    /\ UNCHANGED <<master, client, net, ser, srv, slave, engine>>

NextReg == \E filename \in RegFiles, line \in Lines : Reg_set(filename, line)

SpecReg == Init /\ [][NextReg]_vars

\* ------------------------------------------------------- thread discovery
\* A script that starts a second thread whose code enters a function of the
\* engine's own modules (a thread whose target is a function of weakref.py,
\* the callback of a weak reference): the call is made below the frames of
\* threading.py, never by CodeExecutor.run itself.
WeakrefFile == <<"/", "lib", "weakref.py">>
EngineFiles == {WeakrefFile}

EngineCall(t, file) ==
    /\ t = MainTid => Len(stack[t]) > 1
    /\ DoCall(t, file)

NextDiscovery ==
    \/ \E t \in Tids : ThreadStart(t)
    \/ \E t \in Tids : Debuggee(t)
    \/ \E t \in Tids, file \in EngineFiles : EngineCall(t, file)
    \/ Runner
    \/ export_start
    \/ export_resume_all

SpecDiscovery == InitMT /\ [][NextDiscovery]_vars

\* ---------------------------------------------------------- thread ids
\* The interpreter gives a new thread the ident of a thread that has ended
\* (threading.currentThread().ident, line 359, is the address of the
\* thread's state, which the allocator hands out again).  The new thread
\* begins like any other: it takes the hook of threading.settrace and enters
\* Thread.run.
ThreadReuse(t) ==
    /\ t # MainTid
    /\ pc[t] = "dead"
    /\ nid[t] < maxf
    /\ \E s \in Tids : pc[s] = "code"
    /\ stack' = [stack EXCEPT ![t] = <<NewFrame(t, LibFile, FALSE)>>]
    /\ nid' = [nid EXCEPT ![t] = @ + 1]
    /\ pc' = [pc EXCEPT ![t] = "code"]
    /\ sub' = [sub EXCEPT ![t] = 0]
    /\ ev' = [ev EXCEPT ![t] = "none"]
    /\ sfr' = [sfr EXCEPT ![t] = None]
    /\ traceOn' = [traceOn EXCEPT ![t] = hook]
    /\ UNCHANGED <<sstate, threads, ctl, messages, breakpoints, hook, runpc, rpc,
                   obs, calls, maxf, reply, quit, got, aux>>

\* A script whose main thread waits for the threads it started (it is in
\* Thread.join, from which no trace event comes), whose second thread ends
\* and whose third thread gets the same ident; the client starts and stops
\* the session.
InitReuse ==
    /\ sstate = STATE_PAUSED
    /\ threads = {}
    /\ ctl = [t \in Tids |-> NoCtl]
    /\ messages = <<>>
    /\ breakpoints = set_breakpoint(<<>>, ScriptRel, 1)
    /\ stack = [t \in Tids |-> <<>>]
    /\ pc = [t \in Tids |-> "unborn"]
    /\ sub = [t \in Tids |-> 0]
    /\ ev = [t \in Tids |-> "none"]
    /\ sfr = [t \in Tids |-> None]
    /\ nid = [t \in Tids |-> 0]
    /\ traceOn = [t \in Tids |-> FALSE]
    /\ hook = FALSE
    /\ runpc = "wait_start"
    /\ rpc = RpcIdle
    /\ calls = MaxCallsReuse
    /\ maxf = MaxFramesReuse
    /\ reply = NoReply
    /\ quit = FALSE
    /\ got = <<>>
    /\ stopped = NotStopped
    /\ AuxInit
    /\ obs = [t \in Tids |-> NoObs]

RpcReuse ==
    \/ export_start
    \/ Stop_begin
    \/ \E t \in Tids : Stop_next(t)
    \/ \E t \in Tids, raises \in BOOLEAN : Stop_gone(t, raises)
    \/ Stop_put
    \/ Stop_assign
    \/ Stop_end

NextReuse ==
    \/ \E t \in Tids : ThreadStart(t)
    \/ \E t \in Tids : ThreadReuse(t)
    \/ \E t \in Tids \ {MainTid} : Debuggee(t)
    \/ Run_wait_start
    \/ Run_settrace
    \/ RpcReuse
    \/ \E t \in Tids : GcCollect(t)

SpecReuse == InitReuse /\ [][NextReuse]_vars

\* ------------------------------------------------------------ properties
\* The thread of t has a stop frame: it is about to pause or it is paused.
AtPause(t) == pc[t] \in {"td_pause", "td_put", "td_wait"}

\* The thread of t is handling an event and has not left the callback.
Handling(t) ==
    pc[t] \in {"td_origin", "td_term", "td_cur", "td_sf", "td_pause", "td_put",
               "td_wait"}

AtBreakpoint(t) == is_breakpoint(breakpoints, Top(t).file, Top(t).line)

\* C1. Step-into: after step_into is applied to a controller paused on a line
\* that then calls g (a traced frame), the first event delivered is the first
\* line event of g; the thread does not leave that callback without pausing,
\* and the frame it reports is g.
StepIntoStopsInCallee ==
    \A t \in Tids :
        LET o == obs[t]
        IN  (/\ o.cmd = CMD_STEP_INTO /\ o.paused /\ ctl[t].dbg
             /\ o.first = "call" /\ o.g # 0 /\ o.n >= 1)
            => /\ o.n = 1
               /\ Handling(t)
               /\ ev[t] = "line"
               /\ Top(t).id = o.g
               /\ AtPause(t) => sfr[t].id = o.g

StepIntoWitness ==
    \E t \in Tids :
        /\ obs[t].cmd = CMD_STEP_INTO /\ obs[t].paused /\ obs[t].first = "call"
        /\ obs[t].g # 0 /\ obs[t].n = 1
        /\ pc[t] = "td_wait" /\ ctl[t].state = STATE_PAUSED
        /\ sfr[t].id = obs[t].g
        /\ messages # <<>>
        /\ messages[Len(messages)].type = MSG_THREAD_SUSPENDED

\* C2. Step-over: after step_over is applied to a controller paused in frame
\* f, every pause that is not on a breakpoint is on an event of the very
\* frame f (a line event reports f, its return reports its caller), so no
\* event of a callee pauses; and no line event of f passes without a pause.
StepOverStaysInFrame ==
    \A t \in Tids :
        LET o == obs[t]
        IN  (o.cmd = CMD_STEP_OVER /\ o.paused /\ ctl[t].dbg /\ o.n >= 1)
            => /\ (AtPause(t) /\ ~AtBreakpoint(t))
                      => /\ Top(t).id = o.f
                         /\ ev[t] = "line" => sfr[t].id = o.f
                         /\ ev[t] = "return" => sfr[t] = Back(t)
               /\ (pc[t] = "td_ret" /\ ev[t] = "line") => Top(t).id # o.f

StepOverWitness ==
    \E t \in Tids :
        /\ obs[t].cmd = CMD_STEP_OVER /\ obs[t].paused /\ obs[t].first = "call"
        /\ obs[t].g # 0 /\ obs[t].n = 2
        /\ pc[t] = "td_wait" /\ ctl[t].state = STATE_PAUSED
        /\ ev[t] = "line" /\ Top(t).id = obs[t].f /\ sfr[t].id = obs[t].f
        /\ ~AtBreakpoint(t)

OneSuspensionPerLine ==
    \A t \in Tids :
        \A i \in 1..Len(stack[t]) :
            ~obs[t].stepped => stack[t][i].hits <= 1

\* C6. Completion events: once run() has returned, the queue, if it holds
\* anything, ends with an EndOfProgram message.
QueueEndsWithEndOfProgram ==
    (runpc = "done" /\ messages # <<>>)
        => messages[Len(messages)].type = "EndOfProgram"

\* C7. Termination propagation: when stop() has returned after stopping two
\* paused controllers, the Session is TERMINATED, both controllers are
\* TERMINATED (which ends their wait loops) and neither is in the thread map.
StopRemovesPausedControllers ==
    (rpc.op = "idle" /\ \A t \in Tids : obs[t].cmd = "stop" /\ obs[t].paused)
        => /\ sstate = STATE_TERMINATED
           /\ \A t \in Tids : ctl[t].state = STATE_TERMINATED /\ t \notin threads

\* C8. Session invariant: whenever no stop() is in progress, a TERMINATED
\* Session has an empty thread map, and the map holds no TERMINATED
\* controller other than one whose thread is still in the callback that
\* terminated it.
TerminatedSessionHasNoThreads ==
    rpc.op = "idle"
        => /\ sstate = STATE_TERMINATED => threads = {}
           /\ \A t \in threads :
                  ctl[t].state = STATE_TERMINATED
                      => pc[t] \in {"stop", "td_term", "td_ret"}

\* C9. TERMINATED is terminal: no step changes the state of a registered
\* controller from TERMINATED to another state.
TerminatedIsTerminal ==
    [][\A t \in Tids :
          (t \in threads /\ ctl[t].state = STATE_TERMINATED)
              => ctl'[t].state = STATE_TERMINATED]_vars

\* C10. Controller invariant: a registered controller is PAUSED only while
\* its thread is inside the callback, between setting PAUSED and leaving
\* _wait().
PausedOnlyInCallback ==
    \A t \in threads :
        ctl[t].state = STATE_PAUSED => pc[t] \in {"td_put", "td_wait"}

\* C11: a paused thread waits indefinitely. A thread that has paused (it is
\* about to enter _wait() or is in it) leaves _wait() only when the state of
\* its controller is no longer PAUSED, and while it is there the state leaves
\* PAUSED only in the step that serves a resume, step_over, step_into, step_out
\* or resume_all request, or in a stop() of that controller run by the RPC
\* thread: no step of another thread, no set_breakpoint, no get_messages and
\* no passing of time does it.
ReleaseRequests == {"resume", "step_over", "step_into", "step_out", "resume_all"}
PausedThreadWaits ==
    [][\A t \in Tids :
          pc[t] \in {"td_put", "td_wait"} =>
              /\ (pc[t] = "td_wait" /\ pc'[t] # "td_wait") =>
                     (ctl[t].state # STATE_PAUSED /\ pc'[t] = "td_ret")
              /\ (ctl[t].state = STATE_PAUSED /\ ctl'[t].state # STATE_PAUSED) =>
                     \/ calls' < calls /\ reply'.method \in ReleaseRequests
                                      /\ reply'.fault = "none"
                     \/ RpcHolds(t)]_vars

\* The thread of t has left _wait() after a command was applied to its
\* paused controller.
PausedThreadWitness ==
    \E t \in Tids :
        /\ pc[t] = "td_ret" /\ sfr[t].id # 0
        /\ obs[t].paused /\ obs[t].n = 0
        /\ obs[t].cmd \in {CMD_RUN, CMD_STEP_OVER, CMD_STEP_INTO, CMD_STEP_OUT}

\* C12: wake-up liveness. Under the fair scheduler, once a resume, step_over,
\* step_into or step_out has been applied to a PAUSED controller, or stop() has
\* been called on a PAUSED controller, the thread of that controller eventually
\* leaves _wait() and the trace callback.
CommandGiven(t) ==
    /\ pc[t] \in {"td_put", "td_wait"}
    /\ obs[t].paused /\ obs[t].n = 0
    /\ obs[t].cmd \in {CMD_RUN, CMD_STEP_OVER, CMD_STEP_INTO, CMD_STEP_OUT}
StopCalled(t) == RpcHolds(t) /\ rpc.k = 1 /\ Paused(t)
OutOfCallback(t) == pc[t] \in {"code", "dead"}
CommandWakesThread ==
    \A t \in Tids : (CommandGiven(t) \/ StopCalled(t)) ~> OutOfCallback(t)

\* a is an initial part of b
IsPrefix(a, b) == Len(a) <= Len(b) /\ SubSeq(b, 1, Len(a)) = a

\* C13: non-blocking drain. get_messages() never waits in Queue.get() (it
\* calls it only on a queue that holds a message); what it has collected
\* followed by what is still queued always begins with the events that were
\* queued when it was called, in their order; and when it returns the queue is
\* empty and the answer is the collected sequence, which begins with those
\* events (it is exactly those events, the empty sequence for an empty queue,
\* when nothing was enqueued meanwhile).
NonBlockingDrain ==
    [][/\ (rpc'.op = "get_messages" /\ rpc'.k = 2) => messages' # <<>>
       /\ rpc'.op = "get_messages" => IsPrefix(rpc'.snap, rpc'.res \o messages')
       /\ (rpc.op = "get_messages" /\ rpc'.op = "idle") =>
              /\ reply' = Result("get_messages", rpc.res)
              /\ IsPrefix(rpc.snap, reply'.val)
              /\ messages' = <<>>]_vars

\* get_messages() has collected an event while a debuggee thread has enqueued
\* another one since the call began.
DrainWitness ==
    /\ rpc.op = "get_messages" /\ rpc.res # <<>>
    /\ Len(rpc.res \o messages) > Len(rpc.snap)

\* C14: event delivery. The events returned by the get_messages() calls so
\* far, followed by those the running call has collected and by those still
\* queued, form one sequence that only ever grows at its end, by the one event
\* a thread enqueues; each answer of get_messages() is the next segment of
\* that sequence. So no event is lost, none is returned twice, and the
\* events of a thread are returned in the order it enqueued them.
Total == got \o rpc.res \o messages
Served(method) == calls' < calls /\ reply'.method = method

\* C15: RPC allow-list. A request for a method name without an export_<name>
\* operation is answered with the fault of the exception _dispatch raises,
\* and the step changes nothing else: not the session state, the thread map,
\* a controller, the breakpoints, the event queue, or the _quit flag.
UnsupportedMethodFaults ==
    [][\A method \in Unexported :
          Served(method) =>
              /\ reply' = Fault(method, "Exception")
              /\ UNCHANGED <<sstate, threads, ctl, messages, breakpoints, quit,
                             rpc, got, stack, pc>>]_vars

\* An internal method was requested while the script runs under a
\* controller, and the answer was the fault.
UnsupportedMethodWitness ==
    /\ reply.method \in Unexported /\ reply.fault = "Exception"
    /\ threads # {} /\ ~quit

\* C16: ThreadNotFound. A resume, step_over, step_into, step_out, get_stack,
\* evaluate or execute request naming a thread id that is not a key of the
\* thread map is answered with a fault, and the step changes no controller
\* and not the map.
ThreadCommands == {"resume", "step_over", "step_into", "step_out", "get_stack",
                   "evaluate", "execute"}
UnknownThreadFaults ==
    [][\A method \in ThreadCommands :
          (Served(method) /\ reply'.tid \notin threads) =>
              /\ reply'.fault = "KeyError" /\ reply'.val = <<>>
              /\ UNCHANGED <<ctl, threads, sstate, messages, breakpoints>>]_vars

\* A command for the main thread was answered with the fault after its
\* controller, which had been registered, was gone from the map.
UnknownThreadWitness ==
    /\ reply.method \in ThreadCommands /\ reply.tid = MainTid
    /\ reply.fault = "KeyError"
    /\ nid[MainTid] > 1 /\ MainTid \notin threads

\* C17: evaluation errors are values. An evaluate or execute request for a
\* thread id in the map is never answered with a fault, whatever the text.
EvaluationNeverFaults ==
    [][\A method \in {"evaluate", "execute"} :
          (Served(method) /\ reply'.tid \in threads) => reply'.fault = "none"]_vars

\* C18: session start and stop over RPC. A start request makes the session
\* RUNNING, changes nothing else of the session and is answered "OK"; a stop
\* request, once the server is done with it, has made the session TERMINATED
\* and is answered "OK".
StartStopAnswerOk ==
    [][/\ Served("start") =>
              /\ sstate' = STATE_RUNNING
              /\ reply' = Result("start", <<PyStr("OK")>>)
              /\ UNCHANGED <<threads, ctl, messages, breakpoints>>
       /\ (rpc.op = "stop" /\ rpc'.op = "idle") =>
              /\ sstate' = STATE_TERMINATED
              /\ reply' = Result("stop", <<PyStr("OK")>>)]_vars

\* C19: setBreakpoint over RPC. A set_breakpoint request registers the
\* breakpoint under the absolute path of its file and is answered, without a
\* fault, with the file name and the line it was given.
SetBreakpointAcknowledged ==
    [][Served("set_breakpoint") =>
          \E f \in BreakFiles, l \in Lines :
              /\ breakpoints' = set_breakpoint(breakpoints, f, l)
              /\ is_breakpoint(breakpoints', abspath(f), l)
              /\ reply'.fault = "none"
              /\ reply'.val = <<PyStr(f), PyInt(l)>>]_vars

\* C20: getStack. A get_stack request for a controller that is PAUSED with its
\* thread in _wait() is answered with the (base name, line) pairs of the
\* frames from the root to the current frame, those of ignore-listed files
\* left out, and not with a fault.
GetStackReturnsFrames ==
    [][\A t \in Tids :
          (Served("get_stack") /\ reply'.tid = t /\ t \in threads
              /\ ctl[t].state = STATE_PAUSED /\ pc[t] = "td_wait") =>
              /\ reply'.fault = "none"
              /\ reply'.val = StackFrom(stack[t], Position(stack[t], ctl[t].current))]_vars

\* The threads whose XML-RPC call is on the wire.
InFlight == {c \in Clients : client[c].pc = "call"}

\* C21: across all threads calling the master, at most one RPC call is in
\* flight, a call in flight holds the lock, and the lock is held only while
\* its holder's call is in progress or being left: once the call returned or
\* raised the lock is free, so a failed call blocks no later one.
SingleCallInFlight ==
    /\ Cardinality(InFlight) <= 1
    /\ \A c \in InFlight : master.lock = c
    /\ \A c \in Clients : master.lock = c => client[c].pc \in {"call", "finally"}
    /\ (\A c \in Clients : client[c].pc \notin {"call", "finally"}) => master.lock = 0

\* A call is in flight under the lock after another thread's call failed,
\* while that thread has left the master.
CallAfterFailedCall ==
    \E c, d \in Clients :
        /\ c # d
        /\ client[c].pc = "idle"
        /\ client[c].out \in {"DebuggerConnectionError", "Fault"}
        /\ client[d].pc = "call" /\ master.lock = d

\* The thread c is inside connect(), or was in it last.
InConnect(c) == client[c].op = "connect"
Attempts(c) == IF client[c].n > 0 THEN client[c].n ELSE 0

\* C22: connect(n) sends at most n pings; each failed ping costs one attempt;
\* it goes on only while no ping succeeded; it returns True right after the
\* first ping that succeeded, False after n failed pings (without a ping
\* when n <= 0), and no failed ping makes it raise.
BoundedConnect ==
    \A c \in Clients : InConnect(c) =>
        /\ client[c].pings <= Attempts(c)
        /\ client[c].pc \notin {"idle", "finally"} =>
               /\ client[c].how # "value"
               /\ client[c].pings = client[c].n - client[c].attemps
        /\ client[c].pc = "idle" =>
               /\ client[c].out \in {"True", "False"}
               /\ client[c].out = "True" =>
                      client[c].how = "value" /\ client[c].pings >= 1
               /\ client[c].out = "False" =>
                      client[c].how # "value" /\ client[c].pings = Attempts(c)

\* connect(2) returned True on its second ping, after a failed one.
ConnectSecondAttempt ==
    \E c \in Clients :
        /\ InConnect(c) /\ client[c].pc = "idle"
        /\ client[c].n = 2 /\ client[c].pings = 2 /\ client[c].out = "True"

\* C23: an operation other than connect and is_alive that found the master
\* never connected, or lost the connection to the slave, ends by raising
\* DebuggerConnectionError: it returns no normal result and raises nothing
\* else.
TypedConnectionFailure ==
    \A c \in Clients :
        (/\ client[c].op \in Operations
         /\ client[c].pc = "idle"
         /\ client[c].sit \in {"never", "lost"})
        => client[c].out = "DebuggerConnectionError"

\* The node has the key 'childs'.
Carries(node) == "childs" \in DOMAIN node

RECURSIVE Height(_)
Height(node) ==
    IF Carries(node) /\ Len(node.childs) > 0
    THEN 1 + CHOOSE h \in {Height(node.childs[k]) : k \in 1..Len(node.childs)} :
                 \A k \in 1..Len(node.childs) : Height(node.childs[k]) <= h
    ELSE 0

RECURSIVE Bounded(_, _, _)
\* Every node of the tree that carries children has has_childs true and lies
\* fewer than d levels below the root (level counts from the root, 0).
Bounded(node, level, d) ==
    /\ Carries(node) => node.has_childs /\ level < d
    /\ Carries(node) =>
           \A k \in 1..Len(node.childs) : Bounded(node.childs[k], level + 1, d)

\* {"a": {"b": {"c": 1}}}
Nested ==
    [i \in 1..MaxObjs |->
        IF i <= 3 THEN [type |-> "dict", refs |-> {"next"}]
        ELSE [type |-> "int", refs |-> {}]]

\* C24: the tree serialize() produces for a depth d >= 0 and any value graph,
\* self-referential ones included, carries children only at nodes whose
\* has_childs is true and that lie fewer than d levels below the root; its
\* height is at most d; and {"a": {"b": {"c": 1}}} with d = 1 gives a root
\* with the single child "a", whose has_childs is true and which carries no
\* children.
SerializeDepthBound ==
    ser.done =>
        /\ Bounded(ser.res, 0, ser.depth)
        /\ Height(ser.res) <= ser.depth
        /\ (ser.heap = Nested /\ ser.depth = 1) =>
               /\ Carries(ser.res) /\ Len(ser.res.childs) = 1
               /\ ser.res.childs[1].name = "a"
               /\ ser.res.childs[1].has_childs
               /\ ~Carries(ser.res.childs[1])

\* A dict that holds itself and a list was serialized two levels deep.
SerializedCycle ==
    /\ ser.done /\ ser.depth = 2
    /\ ser.heap[1] = [type |-> "dict", refs |-> {"me", "next"}]
    /\ ser.heap[2].type = "list"
    /\ Height(ser.res) = 2

\* The entries for a line in a list of lines.
Entries(line, lines) == Cardinality({i \in 1..Len(lines) : lines[i] = line})

\* C25: whatever was set before, a set_breakpoint(path, line) leaves exactly
\* one entry for the line under the path, and a further call with the same
\* arguments leaves the registry as the first call left it; every call
\* made so far has exactly one entry.
IdempotentBreakpointSet ==
    /\ \A filename \in RegFiles, line \in Lines :
           LET once == set_breakpoint(breakpoints, filename, line)
           IN  /\ Entries(line, once[abspath(filename)]) = 1
               /\ set_breakpoint(once, filename, line) = once
    /\ \A i \in 1..Len(bplog) :
           Entries(bplog[i][2], breakpoints[abspath(bplog[i][1])]) = 1

\* The same path and line were set twice.
SetTwice == \E i, j \in 1..Len(bplog) : i < j /\ bplog[i] = bplog[j]

\* Some earlier set_breakpoint(p', line) had p' normalize to the absolute
\* path of p.
WasSet(log, p, line) ==
    \E i \in 1..Len(log) : log[i][2] = line /\ abspath(log[i][1]) = abspath(p)

\* C26: after every set_breakpoint, is_breakpoint(p, l) is true exactly if an
\* earlier set_breakpoint(p', l) had p' normalize to the absolute path of p
\* (false for a path never set and for another line of a set path), and an
\* answer that was true stays true.
BreakpointMembership ==
    [][\A p \in RegFiles, line \in Lines :
          /\ is_breakpoint(breakpoints', p, line) <=> WasSet(bplog', p, line)
          /\ is_breakpoint(breakpoints, p, line) => is_breakpoint(breakpoints', p, line)]_vars

\* A breakpoint set with a relative spelling answers for the absolute one,
\* not for another line of the file and not for a file never set.
RelativeSetAbsoluteAsked ==
    /\ bplog = <<<<ScriptDot, 1>>, <<ScriptRel, 1>>>>
    /\ is_breakpoint(breakpoints, ScriptAbs, 1)
    /\ ~is_breakpoint(breakpoints, ScriptAbs, 2)
    /\ ~is_breakpoint(breakpoints, LibFile, 1)

\* The request just served applied `mode` to the controller of t and set its
\* stop frame to `target`; nothing else changed.
Applied(t, mode, target) ==
    /\ ctl'[t] = [ctl[t] EXCEPT !.state = STATE_RUNNING, !.cmd = mode, !.stop = target]
    /\ \A u \in Tids \ {t} : ctl'[u] = ctl[u]
    /\ UNCHANGED <<messages, breakpoints, sstate>>

\* C29: applied to a PAUSED controller, resume gives (RUNNING, RUN, no stop
\* frame), step_over (RUNNING, STEP_OVER, the current frame), step_into
\* (RUNNING, STEP_INTO, no stop frame), step_out (RUNNING, STEP_OUT, the
\* current frame); the current and the origin frame, the other controllers,
\* the event queue, the breakpoints and the session state stay as they were.
CommandTransitions ==
    [][\A t \in threads :
          (ctl[t].state = STATE_PAUSED /\ reply'.tid = t) =>
              /\ Served("resume") => Applied(t, CMD_RUN, None)
              /\ Served("step_over") => Applied(t, CMD_STEP_OVER, ctl[t].current)
              /\ Served("step_into") => Applied(t, CMD_STEP_INTO, None)
              /\ Served("step_out") => Applied(t, CMD_STEP_OUT, ctl[t].current)]_vars

\* A thread waiting in its pause was just told to step out of the frame it
\* is in.
StepOutApplied ==
    \E t \in threads :
        /\ pc[t] = "td_wait" /\ obs[t].paused /\ obs[t].cmd = CMD_STEP_OUT
        /\ ctl[t].state = STATE_RUNNING /\ ctl[t].cmd = CMD_STEP_OUT
        /\ ctl[t].current # None /\ ctl[t].stop = ctl[t].current
        /\ reply.method = "step_out" /\ reply.tid = t

\* The last command applied to the controller of t is a stop() of the RPC
\* thread, and that stop() has returned.
StopReturned(t) == obs[t].cmd = "stop" /\ ~RpcHolds(t)

\* C27: once a stop() issued by the RPC thread has returned, the controller
\* is TERMINATED and stays so, however the stop() interleaved with a trace
\* callback running in the debuggee thread: the thread does not write PAUSED
\* over it and does not block in _wait().
StopIsNotLost ==
    \A t \in Tids :
        StopReturned(t) => ctl[t].state = STATE_TERMINATED /\ pc[t] # "td_wait"

\* The thread of t went past line 122 of the callback it is in.
PastTerminatedTest(t) == pc[t] \in {"td_cur", "td_sf", "td_pause", "td_put", "td_wait"}

\* C28: once the session's stop() has returned, no trace callback creates a
\* controller or enqueues ThreadStarted, and a controller-level callback that
\* began after that return leaves at the test of TERMINATED: it sets no
\* current frame, looks at no breakpoint, enqueues no ThreadSuspended and
\* does not pause.
CancelledAfterStop ==
    [][stopped.ret =>
          /\ threads' \subseteq threads
          /\ \A i \in 1..Len(messages') :
                 messages'[i].type = MSG_THREAD_STARTED
                     => i <= Len(messages) /\ messages[i] = messages'[i]
          /\ \A t \in stopped'.late : ~PastTerminatedTest(t)']_vars

\* C30: when the origin frame of a controller returns, the stop() that the
\* callback runs leaves the controller TERMINATED, with its origin, current
\* and stop frame cleared and ThreadEnded{id} enqueued, so that the callback
\* leaves at the test of TERMINATED without pausing.
ThreadCompletion ==
    [][\A t \in Tids :
          (pc[t] = "stop" /\ pc'[t] = "td_term") =>
              /\ ctl'[t].state = STATE_TERMINATED
              /\ ctl'[t].origin = None /\ ctl'[t].current = None
              /\ ctl'[t].stop = None
              /\ \E i \in 1..Len(Total') : Total'[i] = make_thread_ended(t)]_vars

\* The basenames the literals of lines 18-19 name.
IgnoreListed ==
    {"threading.py", "process.py", "ndb3.py", "serialize.py", "weakref.py"}

\* Thread t has just entered a frame: the step delivers its call event.
Entered(t) == Len(stack'[t]) > Len(stack[t])
EnteredFrame(t) == stack'[t][Len(stack'[t])]

\* Ndb3.trace_dispatch registered a controller for t in this step.
Registered(t) == t \notin threads /\ t \in threads'

\* Every ThreadSuspended and ThreadEnded of t in q comes after a
\* ThreadStarted of t.
StartedFirst(q, t) ==
    \A i \in 1..Len(q) :
        (q[i].id = t /\ q[i].type \in {MSG_THREAD_SUSPENDED, MSG_THREAD_ENDED})
            => \E j \in 1..(i - 1) : q[j] = make_thread_started(t)

\* A call event of a thread without controller registers one controller and
\* enqueues one ThreadStarted, and nothing else registers or enqueues one.
CreatesOne(t) ==
    /\ Registered(t) =>
           /\ Entered(t)
           /\ ctl'[t] = Ndb3Thread_init(EnteredFrame(t))
           /\ messages' = Append(messages, make_thread_started(t))
    /\ (Len(messages') > Len(messages)
           /\ messages'[Len(messages')] = make_thread_started(t))
           => Registered(t)
    /\ StartedFirst(Total', t)

\* A call event of a thread whose controller is registered goes to that
\* controller: the frame gets its dispatch, and nothing is registered.
Routes(t) ==
    (Entered(t) /\ t \in threads /\ traceOn[t] /\ sstate # STATE_TERMINATED
          /\ basename(EnteredFrame(t).file) \notin IgnoreListed)
        => /\ EnteredFrame(t).traced
           /\ UNCHANGED <<threads, ctl, messages>>

\* A call event from one of the engine's files registers nothing and
\* enqueues nothing.
Ignores(t) ==
    (Entered(t) /\ Len(stack[t]) > 0
          /\ basename(EnteredFrame(t).file) \in IgnoreListed)
        => UNCHANGED <<threads, ctl, messages>>

\* C31: thread discovery. A call event from a thread without controller
\* creates one controller and enqueues one ThreadStarted{id}, which precedes
\* every ThreadSuspended and ThreadEnded of that id; the later events of the
\* thread go to that controller; a call event from one of the engine's own
\* files (threading.py, process.py, ndb3.py, serialize.py, weakref.py)
\* creates no controller and enqueues nothing.
ThreadDiscovery ==
    [][\A t \in Tids : CreatesOne(t) /\ Routes(t) /\ Ignores(t)]_vars

\* C32: execution starts only on start(). The session leaves its initial
\* PAUSED state for RUNNING only in the step that serves start(), and run()
\* leaves its wait and executes the script only in a RUNNING session: a
\* resume_all, a command of one thread, set_breakpoint or get_messages served
\* before start() does not make the session RUNNING.
StartsOnlyOnStart ==
    [][/\ (sstate = STATE_PAUSED /\ sstate' = STATE_RUNNING) => Served("start")
       /\ (runpc = "wait_start" /\ runpc' # "wait_start")
              => sstate = STATE_RUNNING]_vars

\* C33: hook lifetime in run(). The trace hook is installed while the script
\* executes, and run() removes it only once the thread map is empty, so
\* that a thread started while a controller is still registered gets the
\* hook and is traced.
HookLifetime ==
    [][/\ runpc' = "exec" => hook'
       /\ (hook /\ ~hook') => threads = {}
       /\ \A t \in Tids :
              (pc[t] = "unborn" /\ pc'[t] = "code" /\ threads # {})
                  => traceOn'[t]]_vars

\* C34: run() terminates after cancellation. Under a fair scheduler, once a
\* stop() of the session has returned (served before start(), while the
\* script runs or while a thread is paused), run() eventually returns, with
\* the trace hook uninstalled and the session TERMINATED.
RunReturnsAfterStop ==
    stopped.ret ~> (runpc = "done" /\ ~hook /\ sstate = STATE_TERMINATED)

\* C35: stop() is repeatable. A stop() of the session served after an
\* earlier stop() has returned, whatever controllers the thread map still
\* holds, ends without raising: it is answered "OK" and leaves the session
\* and every registered controller TERMINATED.
StopIsRepeatable ==
    [][(stopped.ret /\ rpc.op = "stop" /\ rpc'.op = "idle") =>
          /\ reply' = Result("stop", <<PyStr("OK")>>)
          /\ sstate' = STATE_TERMINATED
          /\ \A t \in threads' : ctl'[t].state = STATE_TERMINATED]_vars

\* The ThreadEnded events of t among the events enqueued so far.
Ended(t) == {i \in 1..Len(Total) : Total[i] = make_thread_ended(t)}

\* C36: ThreadEnded at most once. However the stop() of the session run by
\* the RPC thread and the stop() a controller runs on the return of its
\* origin frame interleave, at most one ThreadEnded{id} is enqueued for the
\* controller of a thread.
ThreadEndedOnce ==
    \A t \in Tids : Cardinality(Ended(t)) <= 1

\* The thread of t has made its ThreadSuspended visible and a resume or step
\* command was applied to its controller since.
Answered(t) ==
    /\ pc[t] = "td_wait"
    /\ obs[t].paused /\ obs[t].n = 0
    /\ obs[t].cmd \in {CMD_RUN, CMD_STEP_OVER, CMD_STEP_INTO, CMD_STEP_OUT}

\* The step enqueues a ThreadSuspended of t.
Suspends(t) ==
    /\ Len(messages') = Len(messages) + 1
    /\ messages'[Len(messages')].type = MSG_THREAD_SUSPENDED
    /\ messages'[Len(messages')].id = t

\* C37: a resume answering a suspension is never lost. When a
\* ThreadSuspended{id} becomes visible the controller has already been set
\* PAUSED (the thread enqueues the event from the statement it reached by
\* writing PAUSED); from then on no PAUSED is written until it has left the
\* wait, so a resume or step command sent in reaction to the event is not
\* overwritten, and under the fair scheduler it releases the thread.
ResumeIsNotLost ==
    /\ [][\A t \in Tids :
            /\ Suspends(t) => pc[t] = "td_put"
            /\ (pc[t] # "td_put" /\ pc'[t] = "td_put")
                   => ctl'[t].state = STATE_PAUSED
            /\ (pc[t] = "td_wait" /\ ctl[t].state # STATE_PAUSED)
                   => ctl'[t].state # STATE_PAUSED]_vars
    /\ \A t \in Tids : Answered(t) ~> OutOfCallback(t)

\* The client has drained the ThreadSuspended of a thread and answered it
\* with a resume, which found the thread waiting and set it RUNNING.
ResumeAnswersEvent ==
    \E t \in threads :
        /\ Answered(t) /\ obs[t].cmd = CMD_RUN
        /\ ctl[t].state = STATE_RUNNING
        /\ reply.method = "resume" /\ reply.tid = t
        /\ \E i \in 1..Len(got) :
               got[i].type = MSG_THREAD_SUSPENDED /\ got[i].id = t

\* The thread of t is not the first one with its ident: its outermost frame
\* is not the first frame created under that ident.
Reborn(t) == stack[t] # <<>> /\ stack[t][1].id > 1

\* A call event of t that Ndb3.trace_dispatch does not ignore, in a RUNNING
\* session.
Delivers(t) ==
    /\ Entered(t) /\ traceOn[t] /\ sstate = STATE_RUNNING
    /\ basename(EnteredFrame(t).file) \notin _IGNORE_FILES

\* The event is given to a live controller of t.
TracedLive(t) ==
    /\ t \in threads' /\ ctl'[t].state # STATE_TERMINATED
    /\ EnteredFrame(t).traced

\* A thread with the ident of an earlier thread, whose TERMINATED controller
\* is still registered, gets a controller of its own and its ThreadStarted.
FreshOnReuse(t) ==
    (Delivers(t) /\ Reborn(t) /\ t \in threads
          /\ ctl[t].state = STATE_TERMINATED)
        => /\ ctl'[t] = Ndb3Thread_init(EnteredFrame(t))
           /\ messages' = Append(messages, make_thread_started(t))

\* C38: thread-id reuse. Every thread that delivers a trace event the
\* session does not ignore, while the session is RUNNING, is traced by a
\* controller that is not TERMINATED; a new thread with the ident of an
\* earlier thread whose TERMINATED controller is still in the thread map
\* gets a fresh controller and its own ThreadStarted.
LiveControllerPerThread ==
    [][\A t \in Tids :
          /\ Delivers(t) => TracedLive(t)
          /\ FreshOnReuse(t)]_vars

\* C39: RPC server shutdown. After quit() was called on the adapter no
\* request is taken any more, and the serving loop of run() ends, whether or
\* not a further request arrives.
ServerShutdown ==
    /\ [][quit => calls' = calls]_vars
    /\ quit ~> (srv.loop = "ended")

\* C40: legacy slave stop protocol. The debuggee thread leaves a stop only
\* on a command that was sent after that stop began: the command that
\* releases stop number n was put on the queue while the debuggee was in
\* stop n, not while it was running and not during an earlier stop.
StopWaitsForItsCommand ==
    [][(slave.pc = "waiting" /\ slave'.pc # "waiting") =>
          Head(slave.commands).at = slave.stops]_vars

====
